---- MODULE Spec2Model ----
(***************************************************************************)
(* A model of the no-std Circle-STARK verifier (stwo-verifier-no-std).     *)
(*                                                                         *)
(* The verifier is single-threaded: every operation is a function call.    *)
(* Each subsystem is modelled by operators that follow the Rust code       *)
(* statement by statement, and by a small state machine that lets a        *)
(* caller drive the public operations:                                     *)
(*   mk   - one run of MerkleVerifier::verify (src/src/vcs.rs), one loop   *)
(*          iteration per step;                                            *)
(*   fri  - a FriVerifier driven through commit / sample_query_positions / *)
(*          decommit (src/src/backend.rs);                                 *)
(*   pcs  - CommitmentSchemeVerifier::commit, verify and verify_values     *)
(*          (src/src/verifier.rs), one action per call;                    *)
(*   lib  - the functions of the library that a caller applies on their    *)
(*          own: the call made last, its arguments and what it returned.   *)
(*                                                                         *)
(* Scaling.  TLC has 32-bit integers, so the Mersenne prime 2^31 - 1 is    *)
(* scaled to the Mersenne prime 2^3 - 1 and a machine word of 32 bits to   *)
(* one of 4 bits (so that, as in the code, 2P fits a word and 2P < 2^W).   *)
(* Blake2s is modelled in two ways: the Merkle hasher is an injective      *)
(* symbolic hash (the sequence of what was hashed), the channel hasher is  *)
(* a small deterministic mixing function whose output has 8 words, as the  *)
(* channel reads words, bytes and trailing zero bits of its digest.        *)
(***************************************************************************)
EXTENDS Integers, Sequences, FiniteSets, TLC

VARIABLES mk, fri, pcs, lib

vars == <<mk, fri, pcs, lib>>

(***************************************************************************)
(* Bounds of the model.                                                    *)
(***************************************************************************)
\* Largest column log size of a Merkle tree that the Merkle harness builds.
MaxLogSize == 2
\* Largest number of query positions per log size in the Merkle harness.
MaxQueries == 2

(***************************************************************************)
(* Generic helpers on sequences, sets and maps (BTreeMap as a function).   *)
(***************************************************************************)
Min(S) == CHOOSE x \in S : \A y \in S : x <= y
Max(S) == CHOOSE x \in S : \A y \in S : y <= x

RECURSIVE SortedSeq(_)
\* The elements of a finite set of integers in ascending order
\* (the iteration order of a BTreeMap's keys or a BTreeSet).
SortedSeq(S) == IF S = {} THEN <<>> ELSE <<Min(S)>> \o SortedSeq(S \ {Min(S)})

Range(s) == {s[i] : i \in DOMAIN s}

RECURSIVE Pow2(_)
Pow2(n) == IF n = 0 THEN 1 ELSE 2 * Pow2(n - 1)

\* BTreeMap::remove / insert / get on a function with a finite domain.
MapRemove(m, k) == [x \in DOMAIN m \ {k} |-> m[x]]
MapInsert(m, k, v) == [x \in DOMAIN m \cup {k} |-> IF x = k THEN v ELSE m[x]]
EmptyMap == <<>>

\* The first n elements of s, and what is left after them.
Take(s, n) == SubSeq(s, 1, n)
Drop(s, n) == SubSeq(s, n + 1, Len(s))

(***************************************************************************)
(* The Merkle hasher.  Blake2sMerkleHasher::hash_node hashes the two       *)
(* children (when present) followed by the column values.  The model keeps *)
(* what was hashed: a collision-free hash.                                 *)
(***************************************************************************)
\* children_hashes: <<>> (None) or <<left, right>>.
hash_node(children_hashes, column_values) ==
    (IF children_hashes = <<>>
        THEN <<0>>
        ELSE <<1>> \o children_hashes[1] \o children_hashes[2])
    \o <<Len(column_values)>> \o column_values

(***************************************************************************)
(* MerkleVerifier (src/src/vcs.rs).                                        *)
(***************************************************************************)
MerkleVerifier_new(commitment, column_log_sizes) ==
    [commitment |-> commitment,
     column_log_sizes |-> column_log_sizes,
     n_columns_per_log_size |->
        [l \in Range(column_log_sizes) |->
            Cardinality({i \in DOMAIN column_log_sizes : column_log_sizes[i] = l})]]

\* Option<&Vec<usize>> flattened: the vector, or nothing.
option_flatten_peekable(queries_per_log_size, log_size) ==
    IF log_size \in DOMAIN queries_per_log_size
        THEN queries_per_log_size[log_size] ELSE <<>>

\* The next node to decommit in the current layer: the minimum of the parent of
\* the next node of the previous layer and the next query of this layer.
\* -1 stands for None.
next_decommitment_node(prev_queries, layer_queries) ==
    LET cands == (IF prev_queries = <<>> THEN {} ELSE {Head(prev_queries) \div 2})
                 \cup (IF layer_queries = <<>> THEN {} ELSE {Head(layer_queries)})
    IN IF cands = {} THEN -1 ELSE Min(cands)

\* A variant of the return that records the result and stays in the loop.
MerkleReturn_StaysInLoop(st, result, msg) ==
    [st EXCEPT !.result = result, !.msg = msg]

\* The state of a run that has returned.
MerkleReturn(st, result, msg) ==
    [st EXCEPT !.pc = "done", !.result = result, !.msg = msg]

\* The head of one iteration of `for layer_log_size in (0..=max_log_size).rev()`:
\* lines 59-67.
MerkleBeginLayer(st, layer_log_size) ==
    [st EXCEPT
        !.pc = "node",
        !.layer_log_size = layer_log_size,
        !.next_layer_hashes = EmptyMap,
        !.prev_layer_queries = SortedSeq(DOMAIN st.current_layer_hashes),
        !.layer_column_queries =
            option_flatten_peekable(st.queries_per_log_size, layer_log_size)]

\* MerkleVerifier::verify up to the first iteration of the layer loop: lines 37-67.
MerkleEnter(self, queries_per_log_size, queried_values, decommitment) ==
    LET base == [pc |-> "node",
                 commitment |-> self.commitment,
                 column_log_sizes |-> self.column_log_sizes,
                 n_columns_per_log_size |-> self.n_columns_per_log_size,
                 queries_per_log_size |-> queries_per_log_size,
                 max_log_size |-> 0,
                 layer_log_size |-> 0,
                 queried_values_iter |-> queried_values,
                 hash_witness |-> decommitment.hash_witness,
                 column_witness |-> decommitment.column_witness,
                 current_layer_hashes |-> EmptyMap,
                 next_layer_hashes |-> EmptyMap,
                 prev_layer_queries |-> <<>>,
                 layer_column_queries |-> <<>>,
                 n_iterations |-> 0,
                 result |-> "None",
                 msg |-> ""]
    IN IF self.column_log_sizes = <<>>
        THEN IF /\ self.commitment = hash_node(<<>>, <<>>)
                /\ queried_values = <<>>
                /\ decommitment.hash_witness = <<>>
                /\ decommitment.column_witness = <<>>
                THEN MerkleReturn(base, "Ok", "")
                ELSE MerkleReturn(base, "InvalidStructure", "Empty tree mismatch")
        ELSE LET max_log_size == Max(Range(self.column_log_sizes))
             IN MerkleBeginLayer([base EXCEPT !.max_log_size = max_log_size],
                                 max_log_size)

\* One iteration of the `while let Some(node_index) = next_decommitment_node(..)`
\* loop: lines 69-118.  prev_layer_queries is only peeked, as in the code.
MerkleNode(st) ==
    LET node_index == next_decommitment_node(st.prev_layer_queries,
                                             st.layer_column_queries)
        n_columns_in_layer ==
            IF st.layer_log_size \in DOMAIN st.n_columns_per_log_size
                THEN st.n_columns_per_log_size[st.layer_log_size] ELSE 0
        leaf == st.layer_log_size = st.max_log_size
        left_child_index == node_index * 2
        right_child_index == node_index * 2 + 1
        \* left_hash
        left_known == left_child_index \in DOMAIN st.current_layer_hashes
        hashes1 == IF left_known
                     THEN MapRemove(st.current_layer_hashes, left_child_index)
                     ELSE st.current_layer_hashes
        left_missing == ~left_known /\ st.hash_witness = <<>>
        left_hash == IF left_known THEN st.current_layer_hashes[left_child_index]
                     ELSE Head(st.hash_witness)
        witness1 == IF left_known THEN st.hash_witness ELSE Tail(st.hash_witness)
        \* right_hash
        right_known == right_child_index \in DOMAIN hashes1
        hashes2 == IF right_known THEN MapRemove(hashes1, right_child_index)
                   ELSE hashes1
        right_missing == ~right_known /\ witness1 = <<>>
        right_hash == IF right_known THEN hashes1[right_child_index]
                      ELSE Head(witness1)
        witness2 == IF right_known THEN witness1 ELSE Tail(witness1)
        \* the state after the children were fetched
        st1 == IF leaf THEN st
               ELSE [st EXCEPT !.current_layer_hashes = hashes2,
                               !.hash_witness = witness2]
        children_hashes == IF leaf THEN <<>> ELSE <<left_hash, right_hash>>
        queried == st.layer_column_queries # <<>>
                   /\ Head(st.layer_column_queries) = node_index
        st2 == IF queried
                 THEN [st1 EXCEPT !.layer_column_queries = Tail(@)]
                 ELSE st1
        values_left == IF queried THEN st.queried_values_iter
                       ELSE st.column_witness
        node_column_values == Take(values_left, n_columns_in_layer)
        st3 == IF queried
                 THEN [st2 EXCEPT !.queried_values_iter = Drop(@, n_columns_in_layer)]
                 ELSE [st2 EXCEPT !.column_witness = Drop(@, n_columns_in_layer)]
        computed_hash == hash_node(children_hashes, node_column_values)
        counted == [st3 EXCEPT !.n_iterations = @ + 1]
    IN IF ~leaf /\ left_missing
         THEN MerkleReturn(st, "FriInsufficientWitness", "")
       ELSE IF ~leaf /\ right_missing
         THEN MerkleReturn([st EXCEPT !.current_layer_hashes = hashes1,
                                      !.hash_witness = witness1],
                           "FriInsufficientWitness", "")
       ELSE IF Len(values_left) < n_columns_in_layer
         THEN IF queried
                THEN MerkleReturn([st2 EXCEPT !.queried_values_iter = <<>>],
                                  "InvalidStructure", "Too few queried values")
                ELSE MerkleReturn([st2 EXCEPT !.column_witness = <<>>],
                                  "FriInsufficientWitness", "")
       ELSE [counted EXCEPT
                !.next_layer_hashes = MapInsert(@, node_index, computed_hash)]

\* The end of one layer (lines 119-120): the loop goes on with the layer below,
\* or ends after layer 0.
MerkleLayerEnd(st) ==
    LET moved == [st EXCEPT !.current_layer_hashes = st.next_layer_hashes]
    IN IF st.layer_log_size = 0
         THEN [moved EXCEPT !.pc = "final"]
         ELSE MerkleBeginLayer(moved, st.layer_log_size - 1)

\* MerkleFinal without the check that the hash witness is exhausted.
MerkleFinal_IgnoreExcessHashWitness(st) ==
    IF st.column_witness # <<>>
        THEN MerkleReturn([st EXCEPT !.column_witness = Tail(@)],
                          "InvalidStructure", "Column witness too long")
    ELSE IF st.queried_values_iter # <<>>
        THEN MerkleReturn([st EXCEPT !.queried_values_iter = Tail(@)],
                          "InvalidStructure", "Queried values too long")
    ELSE IF \/ Cardinality(DOMAIN st.current_layer_hashes) # 1
            \/ 0 \notin DOMAIN st.current_layer_hashes
            \/ st.current_layer_hashes[0] # st.commitment
        THEN MerkleReturn(st, "InvalidStructure",
                          "Root mismatch or final hash layer invalid")
    ELSE MerkleReturn(st, "Ok", "")

\* The final checks: lines 122-137.
MerkleFinal(st) ==
    IF st.hash_witness # <<>>
        THEN MerkleReturn([st EXCEPT !.hash_witness = Tail(@)],
                          "InvalidStructure", "Hash witness too long")
    ELSE IF st.column_witness # <<>>
        THEN MerkleReturn([st EXCEPT !.column_witness = Tail(@)],
                          "InvalidStructure", "Column witness too long")
    ELSE IF st.queried_values_iter # <<>>
        THEN MerkleReturn([st EXCEPT !.queried_values_iter = Tail(@)],
                          "InvalidStructure", "Queried values too long")
    ELSE IF \/ Cardinality(DOMAIN st.current_layer_hashes) # 1
            \/ 0 \notin DOMAIN st.current_layer_hashes
            \/ st.current_layer_hashes[0] # st.commitment
        THEN MerkleReturn(st, "InvalidStructure",
                          "Root mismatch or final hash layer invalid")
    ELSE MerkleReturn(st, "Ok", "")

\* One step of a run that has not returned.
MerkleStep(st) ==
    IF st.pc = "final" THEN MerkleFinal(st)
    ELSE IF next_decommitment_node(st.prev_layer_queries,
                                   st.layer_column_queries) # -1
        THEN MerkleNode(st)
    ELSE MerkleLayerEnd(st)

RECURSIVE MerkleRun(_)
\* The run to its return; each step's state is bound by value before the
\* next step reads it.
MerkleRun(st) ==
    IF st.pc = "done" THEN st
    ELSE CHOOSE end \in {MerkleRun(next) : next \in {MerkleStep(st)}} : TRUE

\* MerkleVerifier::verify as one call: the result kind.
MerkleVerifier_verify(self, queries_per_log_size, queried_values, decommitment) ==
    MerkleRun(MerkleEnter(self, queries_per_log_size, queried_values,
                          decommitment)).result

(***************************************************************************)
(* The base field.  src/src/fields/m31.rs is not part of the sources; the  *)
(* specification gives p = 2^31 - 1, scaled here to the Mersenne prime     *)
(* 2^3 - 1.                                                                *)
(***************************************************************************)
P == 7

(***************************************************************************)
(* The committed tree and its canonical decommitment: the prover's side of *)
(* the Mixed Matrix Commitment Scheme, which the verifier's repository     *)
(* does not hold; written from section 4.4 of the specification.           *)
(***************************************************************************)
\* The known column matrices: the value of column c (1-based) at row r.
ColumnValue(c, r) == (3 * c + r + 1) % P

\* The column values hashed into node idx of the layer: those of the columns
\* whose log size is the layer, in column order.
NodeColumnValues(column_log_sizes, layer, idx) ==
    LET cols == SelectSeq([i \in 1..Len(column_log_sizes) |-> i],
                          LAMBDA i : column_log_sizes[i] = layer)
    IN [k \in 1..Len(cols) |-> ColumnValue(cols[k], idx)]

RECURSIVE TreeNodeHash(_, _, _, _)
\* The hash of node idx of the layer in the tree built from the columns.
TreeNodeHash(column_log_sizes, max_log_size, layer, idx) ==
    hash_node(IF layer = max_log_size THEN <<>>
              ELSE <<TreeNodeHash(column_log_sizes, max_log_size, layer + 1, 2 * idx),
                     TreeNodeHash(column_log_sizes, max_log_size, layer + 1, 2 * idx + 1)>>,
              NodeColumnValues(column_log_sizes, layer, idx))

RECURSIVE DecommitNodes(_, _, _)
\* The nodes of the layer that a decommitment rebuilds: the parents of the
\* nodes rebuilt in the layer above and the nodes queried in this layer.
DecommitNodes(queries, max_log_size, layer) ==
    Range(option_flatten_peekable(queries, layer))
    \cup (IF layer = max_log_size THEN {}
          ELSE {q \div 2 : q \in DecommitNodes(queries, max_log_size, layer + 1)})

RECURSIVE CanonicalNodes(_, _, _, _, _)
\* What the prover sends for the given nodes of one layer, in order.
CanonicalNodes(column_log_sizes, queries, max_log_size, layer, nodes) ==
    IF nodes = <<>>
        THEN [hash_witness |-> <<>>, column_witness |-> <<>>, queried_values |-> <<>>]
        ELSE LET n == Head(nodes)
                 rest == CanonicalNodes(column_log_sizes, queries, max_log_size,
                                        layer, Tail(nodes))
                 above == IF layer = max_log_size THEN {}
                          ELSE DecommitNodes(queries, max_log_size, layer + 1)
                 sibling(c) == IF c \in above THEN <<>>
                               ELSE <<TreeNodeHash(column_log_sizes, max_log_size,
                                                   layer + 1, c)>>
                 hashes == IF layer = max_log_size THEN <<>>
                           ELSE sibling(2 * n) \o sibling(2 * n + 1)
                 values == NodeColumnValues(column_log_sizes, layer, n)
                 queried == n \in Range(option_flatten_peekable(queries, layer))
             IN [hash_witness |-> hashes \o rest.hash_witness,
                 column_witness |->
                    (IF queried THEN <<>> ELSE values) \o rest.column_witness,
                 queried_values |->
                    (IF queried THEN values ELSE <<>>) \o rest.queried_values]

RECURSIVE CanonicalLayers(_, _, _, _)
\* The same for the layer and all layers below it, top down.
CanonicalLayers(column_log_sizes, queries, max_log_size, layer) ==
    LET here == CanonicalNodes(column_log_sizes, queries, max_log_size, layer,
                    SortedSeq(DecommitNodes(queries, max_log_size, layer)))
    IN IF layer = 0 THEN here
       ELSE LET below == CanonicalLayers(column_log_sizes, queries,
                                         max_log_size, layer - 1)
            IN [hash_witness |-> here.hash_witness \o below.hash_witness,
                column_witness |-> here.column_witness \o below.column_witness,
                queried_values |-> here.queried_values \o below.queried_values]

\* The root of the tree, and the canonical opening of a query set: the queried
\* values in traversal order and the decommitment.
TreeRoot(column_log_sizes) ==
    IF column_log_sizes = <<>> THEN hash_node(<<>>, <<>>)
    ELSE TreeNodeHash(column_log_sizes, Max(Range(column_log_sizes)), 0, 0)

CanonicalOpening(column_log_sizes, queries) ==
    IF column_log_sizes = <<>>
        THEN [hash_witness |-> <<>>, column_witness |-> <<>>, queried_values |-> <<>>]
        ELSE CanonicalLayers(column_log_sizes, queries,
                             Max(Range(column_log_sizes)),
                             Max(Range(column_log_sizes)))

(***************************************************************************)
(* The Merkle harness: a caller builds a tree, picks a query set and calls *)
(* MerkleVerifier::verify with the canonical opening or a tampered one.    *)
(***************************************************************************)
\* Column log sizes of the trees: at most two columns.
TreeShapes ==
    {<<>>} \cup {<<a>> : a \in 0..MaxLogSize}
           \cup {<<a, b>> : a \in 0..MaxLogSize, b \in 0..MaxLogSize}

RECURSIVE QueryMaps(_)
\* Every map from the given log sizes to a sorted vector of at most MaxQueries
\* distinct positions of that log size.
QueryMaps(keys) ==
    IF keys = {} THEN {EmptyMap}
    ELSE LET k == Max(keys)
         IN {MapInsert(m, k, SortedSeq(S)) :
                m \in QueryMaps(keys \ {k}),
                S \in {T \in SUBSET (0..(Pow2(k) - 1)) : Cardinality(T) <= MaxQueries}}

\* A hash that no tree node has, and a value other than v.
BogusHash == <<9>>
OtherValue(v) == (v + 1) % P

Tampers == {"none", "hash_drop", "hash_extra", "hash_flip",
            "column_drop", "column_extra", "column_flip",
            "value_drop", "value_extra", "value_flip", "root_flip"}

DropLast(s) == IF s = <<>> THEN s ELSE SubSeq(s, 1, Len(s) - 1)
FlipFirstValue(s) == IF s = <<>> THEN s ELSE <<OtherValue(s[1])>> \o Tail(s)

\* The arguments of the call for a tree, a query set and a tampering.
MerkleArguments(column_log_sizes, queries, tamper) ==
    LET o == CanonicalOpening(column_log_sizes, queries)
    IN [tamper |-> tamper,
        commitment |-> IF tamper = "root_flip" THEN BogusHash
                       ELSE TreeRoot(column_log_sizes),
        column_log_sizes |-> column_log_sizes,
        queries |-> queries,
        queried_values |->
            CASE tamper = "value_drop" -> DropLast(o.queried_values)
              [] tamper = "value_extra" -> Append(o.queried_values, 0)
              [] tamper = "value_flip" -> FlipFirstValue(o.queried_values)
              [] OTHER -> o.queried_values,
        hash_witness |->
            CASE tamper = "hash_drop" -> DropLast(o.hash_witness)
              [] tamper = "hash_extra" -> Append(o.hash_witness, BogusHash)
              [] tamper = "hash_flip" ->
                    IF o.hash_witness = <<>> THEN <<>>
                    ELSE <<BogusHash>> \o Tail(o.hash_witness)
              [] OTHER -> o.hash_witness,
        column_witness |->
            CASE tamper = "column_drop" -> DropLast(o.column_witness)
              [] tamper = "column_extra" -> Append(o.column_witness, 0)
              [] tamper = "column_flip" -> FlipFirstValue(o.column_witness)
              [] OTHER -> o.column_witness]

\* Whether the tampering changed nothing (there was nothing to drop or flip).
Untampered(a) ==
    LET o == CanonicalOpening(a.column_log_sizes, a.queries)
    IN /\ a.commitment = TreeRoot(a.column_log_sizes)
       /\ a.queried_values = o.queried_values
       /\ a.hash_witness = o.hash_witness
       /\ a.column_witness = o.column_witness

NoArguments ==
    [tamper |-> "none", commitment |-> <<>>, column_log_sizes |-> <<>>,
     queries |-> EmptyMap, queried_values |-> <<>>, hash_witness |-> <<>>,
     column_witness |-> <<>>]

MerkleIdle ==
    [pc |-> "idle", commitment |-> <<>>, column_log_sizes |-> <<>>,
     n_columns_per_log_size |-> EmptyMap, queries_per_log_size |-> EmptyMap,
     max_log_size |-> 0, layer_log_size |-> 0, queried_values_iter |-> <<>>,
     hash_witness |-> <<>>, column_witness |-> <<>>,
     current_layer_hashes |-> EmptyMap, next_layer_hashes |-> EmptyMap,
     prev_layer_queries |-> <<>>, layer_column_queries |-> <<>>,
     n_iterations |-> 0, result |-> "None", msg |-> ""]

FriIdle == [pc |-> "idle"]
PcsIdle == [pc |-> "idle"]
LibIdle == [op |-> "idle"]

MerkleInit ==
    /\ mk = [args |-> NoArguments, run |-> MerkleIdle]
    /\ fri = FriIdle
    /\ pcs = PcsIdle
    /\ lib = LibIdle

\* The caller's call of verify.
MerkleCall ==
    /\ mk.run.pc = "idle"
    /\ \E column_log_sizes \in TreeShapes :
       \E queries \in QueryMaps(Range(column_log_sizes)) :
       \E tamper \in Tampers :
         LET a == MerkleArguments(column_log_sizes, queries, tamper)
         IN mk' = [args |-> a,
                   run |-> MerkleEnter(
                       MerkleVerifier_new(a.commitment, a.column_log_sizes),
                       a.queries, a.queried_values,
                       [hash_witness |-> a.hash_witness,
                        column_witness |-> a.column_witness])]
    /\ UNCHANGED <<fri, pcs, lib>>

MerkleNodeStep ==
    /\ mk.run.pc = "node"
    /\ next_decommitment_node(mk.run.prev_layer_queries,
                              mk.run.layer_column_queries) # -1
    /\ mk' = [mk EXCEPT !.run = MerkleNode(mk.run)]
    /\ UNCHANGED <<fri, pcs, lib>>

MerkleLayerEndStep ==
    /\ mk.run.pc = "node"
    /\ next_decommitment_node(mk.run.prev_layer_queries,
                              mk.run.layer_column_queries) = -1
    /\ mk' = [mk EXCEPT !.run = MerkleLayerEnd(mk.run)]
    /\ UNCHANGED <<fri, pcs, lib>>

MerkleFinalStep ==
    /\ mk.run.pc = "final"
    /\ mk' = [mk EXCEPT !.run = MerkleFinal(mk.run)]
    /\ UNCHANGED <<fri, pcs, lib>>

MerkleNext ==
    \/ MerkleCall
    \/ MerkleNodeStep
    \/ MerkleLayerEndStep
    \/ MerkleFinalStep

SpecMerkle == MerkleInit /\ [][MerkleNext]_vars

\* The same caller, with the steps of a call that is running always taken:
\* verify is sequential code, so a call that has started executes its next
\* statement.  Nothing obliges the caller to call.
SpecMerkleLive ==
    /\ MerkleInit
    /\ [][MerkleNext]_vars
    /\ WF_vars(MerkleNodeStep)
    /\ WF_vars(MerkleLayerEndStep)
    /\ WF_vars(MerkleFinalStep)

(***************************************************************************)
(* Field arithmetic.  M31 is the base field (its file is not part of the   *)
(* sources: arithmetic modulo P, as the specification gives it); CM31 is   *)
(* M31[i]/(i^2 + 1), a pair <<a, b>>; QM31 is CM31[u]/(u^2 - 2 - i), kept  *)
(* as the array of its four M31 coordinates <<a, b, c, d>>.                *)
(***************************************************************************)
M31 == 0..(P - 1)
M31_add(a, b) == (a + b) % P
M31_sub(a, b) == (a - b + P) % P
M31_neg(a) == (P - a) % P
M31_mul(a, b) == (a * b) % P
\* The inverse of a non-zero element.
M31_inverse(a) == CHOOSE b \in M31 : (a * b) % P = 1
\* BaseField::reduce on a value below 2P.
M31_reduce(x) == x % P

CM31_zero == <<0, 0>>
CM31_add(x, y) == <<M31_add(x[1], y[1]), M31_add(x[2], y[2])>>
CM31_sub(x, y) == <<M31_sub(x[1], y[1]), M31_sub(x[2], y[2])>>
CM31_neg(x) == <<M31_neg(x[1]), M31_neg(x[2])>>
CM31_mul(x, y) ==
    <<M31_sub(M31_mul(x[1], y[1]), M31_mul(x[2], y[2])),
      M31_add(M31_mul(x[1], y[2]), M31_mul(x[2], y[1]))>>
CM31_square(x) == CM31_mul(x, x)
\* A variant of the inverse that does not conjugate: (a + bi) / (a^2 + b^2).
CM31_inverse_NotConjugated(x) ==
    LET n == M31_inverse(M31_add(M31_mul(x[1], x[1]), M31_mul(x[2], x[2])))
    IN CM31_mul(<<x[1], x[2]>>, <<n, 0>>)

\* The inverse of a non-zero element: (a - bi) / (a^2 + b^2).
CM31_inverse(x) ==
    LET n == M31_inverse(M31_add(M31_mul(x[1], x[1]), M31_mul(x[2], x[2])))
    IN CM31_mul(<<x[1], M31_neg(x[2])>>, <<n, 0>>)
\* R = 2 + i.
R == <<2, 1>>

QM31 == M31 \X M31 \X M31 \X M31
QM31_zero == <<0, 0, 0, 0>>
QM31_one == <<1, 0, 0, 0>>
from_m31_array(array) == <<array[1], array[2], array[3], array[4]>>
to_m31_array(x) == <<x[1], x[2], x[3], x[4]>>
\* The two CM31 halves of (a + bi) + (c + di)u.
QM31_0(x) == <<x[1], x[2]>>
QM31_1(x) == <<x[3], x[4]>>
QM31_from_cm31(lo, hi) == <<lo[1], lo[2], hi[1], hi[2]>>
QM31_from_m31(a) == <<a, 0, 0, 0>>
QM31_add(x, y) == [i \in 1..4 |-> M31_add(x[i], y[i])]
QM31_sub(x, y) == [i \in 1..4 |-> M31_sub(x[i], y[i])]
QM31_neg(x) == [i \in 1..4 |-> M31_neg(x[i])]
QM31_mul(x, y) ==
    QM31_from_cm31(
        CM31_add(CM31_mul(QM31_0(x), QM31_0(y)),
                 CM31_mul(CM31_mul(R, QM31_1(x)), QM31_1(y))),
        CM31_add(CM31_mul(QM31_0(x), QM31_1(y)),
                 CM31_mul(QM31_1(x), QM31_0(y))))
QM31_square(x) == QM31_mul(x, x)
QM31_double(x) == QM31_add(x, x)
QM31_mul_cm31(x, rhs) ==
    QM31_from_cm31(CM31_mul(QM31_0(x), rhs), CM31_mul(QM31_1(x), rhs))
\* The inverse of a non-zero element: (a - bu) / (a^2 - (2 + i) b^2).
QM31_inverse(x) ==
    LET b2 == CM31_square(QM31_1(x))
        ib2 == <<M31_neg(b2[2]), b2[1]>>
        denom == CM31_sub(CM31_square(QM31_0(x)),
                          CM31_add(CM31_add(b2, b2), ib2))
        denom_inverse == CM31_inverse(denom)
    IN QM31_from_cm31(CM31_mul(QM31_0(x), denom_inverse),
                      CM31_mul(CM31_neg(QM31_1(x)), denom_inverse))
\* ComplexConjugate for QM31: (a + bu) -> (a - bu).
QM31_complex_conjugate(x) == QM31_from_cm31(QM31_0(x), CM31_neg(QM31_1(x)))

RECURSIVE Flatten(_)
\* The concatenation of a sequence of sequences.
Flatten(ss) == IF ss = <<>> THEN <<>> ELSE Head(ss) \o Flatten(Tail(ss))

(***************************************************************************)
(* The channel (src/src/channel.rs).  A digest is FELTS_PER_HASH machine   *)
(* words.  Blake2s is replaced by a small mixing function: it absorbs the  *)
(* hashed words one by one and is squeezed into the words of the digest.   *)
(* The field `ops` is a history variable: the mix_* and draw_felt calls     *)
(* made on the channel, in order.  The field `target_endian` is the byte   *)
(* order of the target the program that holds the channel is built for.    *)
(***************************************************************************)
FELTS_PER_HASH == 8
SECURE_EXTENSION_DEGREE == 4
\* The log of the order of the circle group over M31: P + 1 = 2^31 in the code.
M31_CIRCLE_LOG_ORDER == CHOOSE k \in 0..31 : Pow2(k) = P + 1
\* The bits of a machine word (u32 in the code) and the number of its values:
\* as in the code, 2P + 2.
WordBits == M31_CIRCLE_LOG_ORDER + 1
WordModulus == Pow2(WordBits)
\* The bytes of a word, and the number of values of one byte.
N_BYTES_FELT == 4
ByteModulus == Pow2(WordBits \div N_BYTES_FELT)

\* u32::to_le_bytes, u32::from_le_bytes and u32::from_be_bytes.
to_le_bytes(w) ==
    [k \in 1..N_BYTES_FELT |-> (w \div (ByteModulus ^ (k - 1))) % ByteModulus]
from_le_bytes(bytes) ==
    LET RECURSIVE value(_)
        value(k) == IF k > Len(bytes) THEN 0
                    ELSE bytes[k] + ByteModulus * value(k + 1)
    IN value(1)
from_be_bytes(bytes) ==
    from_le_bytes([k \in 1..Len(bytes) |-> bytes[Len(bytes) + 1 - k]])

\* A digest is kept as the words that from_le_bytes reads from its bytes.
\* Reading the memory of a digest as words, or the memory of words as bytes
\* (core::mem::transmute, IntoSlice::into_slice), goes by the byte order of
\* the target: the words as they are on a little-endian target, the words
\* with their bytes reversed on a big-endian one.
NativeWord(target_endian, w) ==
    IF target_endian = "little" THEN from_le_bytes(to_le_bytes(w))
    ELSE from_be_bytes(to_le_bytes(w))
NativeWords(target_endian, words) ==
    [i \in 1..Len(words) |-> NativeWord(target_endian, words[i])]

Absorb(h, x) == ((h + x + 1) * (h + x + 1) * 7 + h) % 4093

RECURSIVE AbsorbAll(_, _)
\* The words of data absorbed from left to right, computed by halves.
AbsorbAll(h, data) ==
    IF data = <<>> THEN h
    ELSE IF Len(data) = 1 THEN Absorb(h, data[1])
    ELSE LET half == Len(data) \div 2
         IN CHOOSE absorbed \in {
                AbsorbAll(mid, SubSeq(data, half + 1, Len(data))) :
                mid \in {AbsorbAll(h, SubSeq(data, 1, half))}} : TRUE

Squeeze(h) ==
    [i \in 1..FELTS_PER_HASH |-> (Absorb(Absorb(h, i), i) \div 8) % WordModulus]

\* Blake2sHasher::hash of the concatenated input.
Blake2sHasher_hash(data) == Squeeze(AbsorbAll(Len(data), data))
Blake2sHasher_concat_and_hash(v1, v2) == Blake2sHasher_hash(v1 \o v2)
\* The Blake2s compression function on a state and one message block.
compress(h_vecs, msg) == Squeeze(AbsorbAll(2015, h_vecs \o msg))

ChannelTime_default == [n_challenges |-> 0, n_sent |-> 0, n_received |-> 0]
Blake2sChannel_default ==
    [digest |-> [i \in 1..FELTS_PER_HASH |-> 0],
     channel_time |-> ChannelTime_default,
     ops |-> <<>>,
     target_endian |-> "little"]

\* The history variable: one more call on the channel.
Logged(channel, op) == [channel EXCEPT !.ops = Append(@, op)]

update_digest(channel, new_digest) ==
    [channel EXCEPT !.digest = new_digest,
                    !.channel_time.n_challenges = @ + 1,
                    !.channel_time.n_sent = 0]

\* The channel after draw_random_bytes; the bytes drawn are its new digest.
draw_random_bytes(channel) ==
    LET n_received == channel.channel_time.n_received + 1
    IN [channel EXCEPT
            !.channel_time.n_received = n_received,
            !.digest = Blake2sHasher_hash(channel.digest \o <<n_received>>)]

\* A variant of draw_base_felts that reduces the words of the first block
\* drawn, whatever they are.
draw_base_felts_NoRejection(channel) ==
    CHOOSE returned \in {
        [channel |-> drawn,
         felts |-> [i \in 1..FELTS_PER_HASH |-> M31_reduce(drawn.digest[i])]] :
        drawn \in {draw_random_bytes(channel)}} : TRUE

\* The operations of the channel take the channel by value (the variable
\* bound in the set constructor), so that a chain of calls is evaluated call
\* by call.
RECURSIVE draw_base_felts(_)
\* Repeats hashing until every word is below 2P, then reduces the words.
draw_base_felts(channel) ==
    CHOOSE returned \in UNION {
        IF \A i \in 1..FELTS_PER_HASH : drawn.digest[i] < 2 * P
          THEN {[channel |-> drawn,
                 felts |-> [i \in 1..FELTS_PER_HASH |->
                               M31_reduce(drawn.digest[i])]]}
          ELSE {draw_base_felts(drawn)} :
        drawn \in {draw_random_bytes(channel)}} : TRUE

\* Channel::draw_felt: the channel after the draw and the element drawn.
draw_felt(channel) ==
    CHOOSE returned \in {
        LET value == from_m31_array(Take(r.felts, SECURE_EXTENSION_DEGREE))
        IN [channel |-> Logged(r.channel, <<"draw_felt", value>>),
            value |-> value] :
        r \in {draw_base_felts(before) : before \in {channel}}} : TRUE

\* The felts are hashed as the bytes of their memory.
mix_felts(channel, felts) ==
    CHOOSE mixed \in {
        Logged(update_digest(before,
                   Blake2sHasher_hash(before.digest
                       \o NativeWords(before.target_endian,
                              Flatten([i \in 1..Len(felts) |->
                                          to_m31_array(felts[i])])))),
               <<"mix_felts", felts>>) :
        before \in {channel}} : TRUE

\* The nonce is split into its low and high word; the digest is read as
\* words, and the words of the result written as the new digest, by
\* core::mem::transmute.
mix_u64(channel, nonce) ==
    LET msg == <<nonce % WordModulus, (nonce \div WordModulus) % WordModulus>>
                 \o [i \in 1..14 |-> 0]
    IN CHOOSE mixed \in {
           Logged(update_digest(before,
                      NativeWords(before.target_endian,
                          compress(NativeWords(before.target_endian,
                                               before.digest), msg))),
                  <<"mix_u64", nonce>>) :
           before \in {channel}} : TRUE

\* Blake2sMerkleChannel::mix_root.
mix_root(channel, root) ==
    CHOOSE mixed \in {
        Logged(update_digest(before,
                   Blake2sHasher_concat_and_hash(before.digest, root)),
               <<"mix_root", root>>) :
        before \in {channel}} : TRUE

RECURSIVE TrailingZeroBits(_, _)
\* The number of trailing zero bits of a non-zero value of the given width.
TrailingZeroBits(v, width) ==
    IF width = 0 \/ v % 2 = 1 THEN 0 ELSE 1 + TrailingZeroBits(v \div 2, width - 1)

\* Channel::trailing_zeros: the trailing zero bits of the low half of the
\* digest read as a little-endian integer (all of its bits when it is zero).
trailing_zeros(channel) ==
    LET half == FELTS_PER_HASH \div 2
        RECURSIVE le(_)
        le(i) == IF i > half THEN 0 ELSE channel.digest[i] + WordModulus * le(i + 1)
    IN TrailingZeroBits(le(1), half * WordBits)

(***************************************************************************)
(* Queries (src/src/types/fri.rs) and bit reversal (src/src/utils.rs).     *)
(* A result record carries `result`: "Ok", the kind of the                 *)
(* VerificationError returned, or "panic" when the call does not return.   *)
(***************************************************************************)
\* BTreeMap / Vec dedup of consecutive equal elements.
Dedup(s) == SelectSeq([i \in 1..Len(s) |->
                          IF i > 1 /\ s[i] = s[i - 1] THEN -1 ELSE s[i]],
                      LAMBDA x : x # -1)

\* u32::saturating_sub.
saturating_sub(a, b) == IF a < b THEN 0 ELSE a - b

RECURSIVE ReverseBits(_, _)
\* The lowest n bits of i in reverse order.
ReverseBits(i, n) ==
    IF n = 0 THEN 0 ELSE (i % 2) * Pow2(n - 1) + ReverseBits(i \div 2, n - 1)

\* The bits of a usize: two machine words.
UsizeBits == 2 * WordBits

\* A variant of bit_reverse_index that shifts the reversed word by one bit
\* less.
bit_reverse_index_ShiftedOneLess(i, log_size) ==
    IF log_size = 0 THEN i
    ELSE ReverseBits(i, UsizeBits) \div Pow2(UsizeBits - log_size - 1)

\* i.reverse_bits() >> (usize::BITS - log_size)
bit_reverse_index(i, log_size) ==
    IF log_size = 0 THEN i
    ELSE ReverseBits(i, UsizeBits) \div Pow2(UsizeBits - log_size)

\* One evaluation of the `while positions.len() < n_queries` loop head of
\* Queries::generate, and of the loop body when the condition holds.
Queries_generate_step(st, domain_size, n_queries) ==
    IF st.result # "running" THEN st
    ELSE IF Len(st.positions) >= n_queries THEN [st EXCEPT !.result = "Ok"]
    ELSE LET drawn == draw_random_bytes(st.channel)
             random_val == drawn.digest[1] + WordModulus * drawn.digest[2]
             pos == random_val % domain_size
             pushed == IF pos \in Range(st.positions) THEN st.positions
                       ELSE Append(st.positions, pos)
         IN [channel |-> drawn, positions |-> pushed, i |-> st.i + 1,
             result |-> IF st.i + 1 > n_queries * 100 THEN "panic" ELSE "running"]

RECURSIVE Queries_generate_steps(_, _, _, _)
\* k evaluations of the loop, by halving.
Queries_generate_steps(st, domain_size, n_queries, k) ==
    IF k = 0 \/ st.result # "running" THEN st
    ELSE IF k = 1 THEN Queries_generate_step(st, domain_size, n_queries)
    ELSE LET half == Queries_generate_steps(st, domain_size, n_queries, k \div 2)
         IN Queries_generate_steps(half, domain_size, n_queries, k - k \div 2)

\* Queries::generate: the loop ends within n_queries * 100 + 2 evaluations.
Queries_generate(channel, log_domain_size, n_queries) ==
    LET r == Queries_generate_steps(
                 [channel |-> channel, positions |-> <<>>, i |-> 0,
                  result |-> "running"],
                 Pow2(log_domain_size), n_queries, n_queries * 100 + 2)
    IN [result |-> r.result,
        channel |-> r.channel,
        queries |-> [log_domain_size |-> log_domain_size,
                     positions |-> SortedSeq(Range(r.positions))]]

\* A variant of Queries::fold that keeps the positions that fold onto the
\* position before them.
Queries_fold_NotDeduplicated(queries, n_folds) ==
    [log_domain_size |-> queries.log_domain_size - n_folds,
     positions |-> [i \in 1..Len(queries.positions) |->
                       queries.positions[i] \div Pow2(n_folds)]]

\* Queries::fold; n_folds <= log_domain_size at every call site modelled.
Queries_fold(queries, n_folds) ==
    [log_domain_size |-> queries.log_domain_size - n_folds,
     positions |-> Dedup([i \in 1..Len(queries.positions) |->
                             queries.positions[i] \div Pow2(n_folds)])]

get_query_positions_by_log_size(queries, column_log_sizes) ==
    [log_size \in column_log_sizes |->
        Queries_fold(queries,
                     saturating_sub(queries.log_domain_size, log_size)).positions]

(***************************************************************************)
(* FriVerifier (src/src/backend.rs): commit and sample_query_positions.    *)
(* Option values are sequences of length 0 (None) or 1 (Some).             *)
(***************************************************************************)
FOLD_STEP == 1
CIRCLE_TO_LINE_FOLD_STEP == 1

\* CanonicCoset::new(log_size).circle_domain(): CircleDomain::new builds a
\* Coset, which asserts log_size <= M31_CIRCLE_LOG_ORDER.
CircleDomain_new_panics(log_size) == log_size > M31_CIRCLE_LOG_ORDER
CircleDomain_new(log_size) == [log_size |-> log_size]

RECURSIVE FriCommitInnerLayers_DrawBeforeMix(_, _, _, _)
\* A variant of the loop that draws the folding alpha of a layer before the
\* commitment of that layer is mixed.
FriCommitInnerLayers_DrawBeforeMix(channel, inner_layers, layer_commitments, folding_alphas) ==
    IF inner_layers = <<>>
        THEN [channel |-> channel, layer_commitments |-> layer_commitments,
              folding_alphas |-> folding_alphas]
    ELSE LET layer_proof == Head(inner_layers)
         IN CHOOSE returned \in {
                FriCommitInnerLayers_DrawBeforeMix(
                    mix_root(drawn.channel, layer_proof.commitment),
                    Tail(inner_layers),
                    Append(layer_commitments, layer_proof.commitment),
                    Append(folding_alphas, drawn.value)) :
                drawn \in {draw_felt(channel)}} : TRUE

RECURSIVE FriCommitInnerLayers(_, _, _, _)
\* The loop over proof.inner_layers of FriVerifier::commit (lines 211-215).
FriCommitInnerLayers(channel, inner_layers, layer_commitments, folding_alphas) ==
    IF inner_layers = <<>>
        THEN [channel |-> channel, layer_commitments |-> layer_commitments,
              folding_alphas |-> folding_alphas]
    ELSE LET layer_proof == Head(inner_layers)
         IN CHOOSE returned \in {
                FriCommitInnerLayers(
                    drawn.channel, Tail(inner_layers),
                    Append(layer_commitments, layer_proof.commitment),
                    Append(folding_alphas, drawn.value)) :
                drawn \in {draw_felt(mix_root(channel,
                                              layer_proof.commitment))}} : TRUE

NoVerifier == <<>>

\* A variant of the order check that compares the two bounds of a window the
\* other way round.
bounds_not_sorted_descending_Reversed(bounds) ==
    \E i \in 1..(Len(bounds) - 1) : bounds[i] > bounds[i + 1]

\* bounds.windows(2).any(|w| w[0] < w[1])
bounds_not_sorted_descending(bounds) ==
    \E i \in 1..(Len(bounds) - 1) : bounds[i] < bounds[i + 1]


\* FriVerifier::commit: the result, the channel after the call and the verifier.
FriVerifier_commit(channel, config, proof, bounds) ==
    IF bounds_not_sorted_descending(bounds)
        THEN [result |-> "InvalidStructure",
              msg |-> "FRI bounds must be sorted descending",
              channel |-> channel, verifier |-> NoVerifier]
    ELSE IF bounds = <<>>
        THEN [result |-> "InvalidStructure", msg |-> "FRI bounds cannot be empty",
              channel |-> channel, verifier |-> NoVerifier]
    ELSE IF \E i \in 1..Len(bounds) :
                CircleDomain_new_panics(bounds[i] + config.log_blowup_factor)
        THEN [result |-> "panic", msg |-> "", channel |-> channel,
              verifier |-> NoVerifier]
    ELSE LET column_commitment_domains ==
                 [i \in 1..Len(bounds) |->
                     CircleDomain_new(bounds[i] + config.log_blowup_factor)]
         IN CHOOSE returned \in {
                [result |-> "Ok", msg |-> "",
                 channel |-> mix_felts(inner.channel,
                                       proof.last_layer_poly.coeffs),
                 verifier |->
                    [config |-> config,
                     layer_commitments |-> inner.layer_commitments,
                     folding_alphas |-> inner.folding_alphas,
                     first_layer_proof |-> <<proof.first_layer>>,
                     inner_layers_proof |-> proof.inner_layers,
                     last_layer_poly |-> <<proof.last_layer_poly>>,
                     queries |-> <<>>,
                     column_commitment_domains |-> column_commitment_domains,
                     column_bounds |-> bounds]] :
                inner \in {FriCommitInnerLayers(
                               drawn.channel, proof.inner_layers,
                               <<proof.first_layer.commitment>>,
                               <<drawn.value>>) :
                drawn \in {draw_felt(mix_root(channel,
                                              proof.first_layer.commitment))}}} : TRUE

\* A variant of sample_query_positions that returns the positions without
\* storing the raw queries in the verifier.
sample_query_positions_QueriesNotStored(self, channel, column_log_sizes) ==
    LET max_log_size == IF column_log_sizes = {} THEN 0 ELSE Max(column_log_sizes)
        g == Queries_generate(channel, max_log_size, self.config.n_queries)
    IN IF g.result = "panic"
         THEN [result |-> "panic", channel |-> g.channel, verifier |-> self,
               positions |-> EmptyMap]
         ELSE [result |-> "Ok", channel |-> g.channel, verifier |-> self,
               positions |-> get_query_positions_by_log_size(g.queries,
                                                             column_log_sizes)]

\* FriVerifier::sample_query_positions; column_log_sizes is a BTreeSet.
sample_query_positions(self, channel, column_log_sizes) ==
    LET max_log_size == IF column_log_sizes = {} THEN 0 ELSE Max(column_log_sizes)
        g == Queries_generate(channel, max_log_size, self.config.n_queries)
    IN IF g.result = "panic"
         THEN [result |-> "panic", channel |-> g.channel, verifier |-> self,
               positions |-> EmptyMap]
         ELSE [result |-> "Ok", channel |-> g.channel,
               verifier |-> [self EXCEPT !.queries = <<g.queries>>],
               positions |-> get_query_positions_by_log_size(g.queries,
                                                             column_log_sizes)]

(***************************************************************************)
(* compute_decommitment_positions_and_rebuild_evals (src/src/fri_utils.rs) *)
(***************************************************************************)
RECURSIVE process_subset_positions_WitnessDefaulted(_, _, _, _, _)
\* A variant of the loop that takes zero for a witness evaluation that the
\* proof does not supply.
process_subset_positions_WitnessDefaulted(acc, position, end, subset_queries, current_subset_evals) ==
    IF position >= end
        THEN [acc EXCEPT !.current_subset_evals = current_subset_evals]
    ELSE IF subset_queries # <<>> /\ Head(subset_queries) = position
        THEN IF acc.query_evals_iter = <<>>
               THEN [acc EXCEPT !.result = "InvalidStructure",
                                !.msg = "Missing query evaluation"]
               ELSE process_subset_positions_WitnessDefaulted(
                        [acc EXCEPT !.query_evals_iter = Tail(@)],
                        position + 1, end, Tail(subset_queries),
                        Append(current_subset_evals, Head(acc.query_evals_iter)))
    ELSE process_subset_positions_WitnessDefaulted(
             [acc EXCEPT !.witness_evals = IF @ = <<>> THEN @ ELSE Tail(@)],
             position + 1, end, subset_queries,
             Append(current_subset_evals,
                    IF acc.witness_evals = <<>> THEN QM31_zero
                    ELSE Head(acc.witness_evals)))

RECURSIVE process_subset_positions(_, _, _, _, _)
\* The `for position in subset_decommitment_positions` loop of process_subset.
\* acc carries the two evaluation iterators and the result so far.
process_subset_positions(acc, position, end, subset_queries, current_subset_evals) ==
    IF position >= end
        THEN [acc EXCEPT !.current_subset_evals = current_subset_evals]
    ELSE IF subset_queries # <<>> /\ Head(subset_queries) = position
        THEN IF acc.query_evals_iter = <<>>
               THEN [acc EXCEPT !.result = "InvalidStructure",
                                !.msg = "Missing query evaluation"]
               ELSE process_subset_positions(
                        [acc EXCEPT !.query_evals_iter = Tail(@)],
                        position + 1, end, Tail(subset_queries),
                        Append(current_subset_evals, Head(acc.query_evals_iter)))
    ELSE IF acc.witness_evals = <<>>
        THEN [acc EXCEPT !.result = "FriInsufficientWitness", !.msg = ""]
        ELSE process_subset_positions(
                 [acc EXCEPT !.witness_evals = Tail(@)],
                 position + 1, end, subset_queries,
                 Append(current_subset_evals, Head(acc.witness_evals)))

process_subset(acc, subset_start, subset_queries, fold_step_size, log_domain_size) ==
    LET extended == [acc EXCEPT !.decommitment_positions =
                        @ \o [k \in 1..fold_step_size |-> subset_start + k - 1]]
        done == process_subset_positions(extended, subset_start,
                                         subset_start + fold_step_size,
                                         subset_queries, <<>>)
    IN IF done.result # "Ok" THEN done
       ELSE [done EXCEPT
                !.subset_evals = Append(@, done.current_subset_evals),
                !.subset_domain_initial_indexes =
                    Append(@, bit_reverse_index(subset_start, log_domain_size))]

RECURSIVE rebuild_evals_groups_OneGroupPerQuery(_, _, _, _, _, _)
\* A variant of the loop that closes the group at every query, also when the
\* next query lies in the same subset.
rebuild_evals_groups_OneGroupPerQuery(acc, positions, group, current_subset_start, fold_step, log_domain_size) ==
    IF acc.result # "Ok" THEN acc
    ELSE IF positions = <<>>
        THEN IF group = <<>> THEN acc
             ELSE process_subset(acc, current_subset_start, group, Pow2(fold_step),
                                 log_domain_size)
    ELSE LET query_pos == Head(positions)
             subset_start_for_query ==
                 (query_pos \div Pow2(fold_step)) * Pow2(fold_step)
         IN IF group = <<>>
              THEN rebuild_evals_groups_OneGroupPerQuery(
                       acc, Tail(positions), <<query_pos>>,
                       subset_start_for_query, fold_step, log_domain_size)
              ELSE rebuild_evals_groups_OneGroupPerQuery(
                       process_subset(acc, current_subset_start, group,
                                      Pow2(fold_step), log_domain_size),
                       Tail(positions), <<query_pos>>, subset_start_for_query,
                       fold_step, log_domain_size)

RECURSIVE rebuild_evals_groups(_, _, _, _, _, _)
\* The `for &query_pos in &queries.positions` loop and the processing of the
\* last group.
rebuild_evals_groups(acc, positions, group, current_subset_start, fold_step, log_domain_size) ==
    IF acc.result # "Ok" THEN acc
    ELSE IF positions = <<>>
        THEN IF group = <<>> THEN acc
             ELSE process_subset(acc, current_subset_start, group, Pow2(fold_step),
                                 log_domain_size)
    ELSE LET query_pos == Head(positions)
             subset_start_for_query ==
                 (query_pos \div Pow2(fold_step)) * Pow2(fold_step)
         IN IF group = <<>> \/ subset_start_for_query = current_subset_start
              THEN rebuild_evals_groups(acc, Tail(positions),
                                        Append(group, query_pos),
                                        subset_start_for_query, fold_step,
                                        log_domain_size)
              ELSE rebuild_evals_groups(
                       process_subset(acc, current_subset_start, group,
                                      Pow2(fold_step), log_domain_size),
                       Tail(positions), <<query_pos>>, subset_start_for_query,
                       fold_step, log_domain_size)

\* The result, the decommitment positions and the SparseEvaluation.
compute_decommitment_positions_and_rebuild_evals(queries, query_evals, witness_evals, fold_step) ==
    LET acc0 == [result |-> "Ok", msg |-> "",
                 query_evals_iter |-> query_evals,
                 witness_evals |-> witness_evals,
                 decommitment_positions |-> <<>>,
                 subset_evals |-> <<>>,
                 subset_domain_initial_indexes |-> <<>>,
                 current_subset_evals |-> <<>>]
        acc == rebuild_evals_groups(acc0, queries.positions, <<>>, 0, fold_step,
                                    queries.log_domain_size)
        sparse_evaluation ==
            [subset_evals |-> acc.subset_evals,
             subset_domain_initial_indexes |-> acc.subset_domain_initial_indexes]
    IN IF acc.result # "Ok"
         THEN [result |-> acc.result, msg |-> acc.msg,
               decommitment_positions |-> acc.decommitment_positions,
               sparse_evaluation |-> sparse_evaluation]
       ELSE IF acc.query_evals_iter # <<>> /\ queries.positions # <<>>
         THEN [result |-> "InvalidStructure",
               msg |-> "Extra query evaluations provided",
               decommitment_positions |-> acc.decommitment_positions,
               sparse_evaluation |-> sparse_evaluation]
       ELSE [result |-> "Ok", msg |-> "",
             decommitment_positions |-> acc.decommitment_positions,
             sparse_evaluation |-> sparse_evaluation]

\* The Merkle check of one FRI layer: SECURE_EXTENSION_DEGREE columns of the
\* layer's log size, the rebuilt evaluations as queried values
\* (backend.rs lines 296-321 and 375-393).
FriLayerMerkleVerify(layer_proof, layer_log_domain_size, decommitment_positions, sparse_evaluation) ==
    LET queried_values_for_merkle_verify ==
            Flatten([i \in 1..Len(Flatten(sparse_evaluation.subset_evals)) |->
                        to_m31_array(Flatten(sparse_evaluation.subset_evals)[i])])
        query_positions_for_merkle_verify ==
            MapInsert(EmptyMap, layer_log_domain_size, decommitment_positions)
        merkle_verifier ==
            MerkleVerifier_new(layer_proof.commitment,
                               [i \in 1..SECURE_EXTENSION_DEGREE |->
                                   layer_log_domain_size])
    IN MerkleRun(MerkleEnter(merkle_verifier, query_positions_for_merkle_verify,
                             queried_values_for_merkle_verify,
                             layer_proof.decommitment))

\* FriVerifier::decommit_first_layer.
decommit_first_layer(self, queries, fri_input_evaluations_at_queries) ==
    IF self.first_layer_proof = <<>>
        THEN [result |-> "InvalidStructure", msg |-> "Missing first layer proof",
              evals |-> <<>>]
    ELSE IF fri_input_evaluations_at_queries = <<>>
        THEN [result |-> "InvalidStructure",
              msg |-> "Answers cannot be empty for decommit_first_layer",
              evals |-> <<>>]
    ELSE LET first_layer_proof == self.first_layer_proof[1]
             rebuilt == compute_decommitment_positions_and_rebuild_evals(
                            queries, fri_input_evaluations_at_queries,
                            first_layer_proof.fri_witness, CIRCLE_TO_LINE_FOLD_STEP)
             layer_log_domain_size == self.column_commitment_domains[1].log_size
             verified == FriLayerMerkleVerify(first_layer_proof, layer_log_domain_size,
                                              rebuilt.decommitment_positions,
                                              rebuilt.sparse_evaluation)
         IN IF rebuilt.result # "Ok"
              THEN [result |-> rebuilt.result, msg |-> rebuilt.msg, evals |-> <<>>]
            ELSE IF verified.result # "Ok"
              THEN [result |-> verified.result, msg |-> verified.msg, evals |-> <<>>]
            ELSE [result |-> "Ok", msg |-> "",
                  evals |-> <<rebuilt.sparse_evaluation>>]

(***************************************************************************)
(* Circle points, point indices, cosets and line domains                   *)
(* (src/src/types/point.rs, src/src/types/poly.rs).  usize has two machine *)
(* words; an untyped integer literal is a signed machine word (i32).       *)
(***************************************************************************)
UsizeModulus == Pow2(UsizeBits)
\* The generator of the circle group, scaled with P: x = 2 as in the code and
\* y with x^2 + y^2 = 1.
M31_CIRCLE_GEN == [x |-> 2, y |-> 2]

\* Add for CirclePoint<BaseField>: componentwise, as the code has it.
CirclePoint_add(p, q) == [x |-> M31_add(p.x, q.x), y |-> M31_add(p.y, q.y)]
\* Neg for CirclePoint: (x, y) -> (-x, y), as the code has it.
CirclePoint_neg(p) == [x |-> M31_neg(p.x), y |-> p.y]
\* Sub: self + (-rhs).
CirclePoint_sub(p, q) == CirclePoint_add(p, CirclePoint_neg(q))
\* CirclePoint::zero(): x = one, y = zero.
CirclePoint_zero == [x |-> 1, y |-> 0]

\* (1 << (M31_CIRCLE_LOG_ORDER - log_size)) as usize: the shift is done on a
\* signed machine word, whose sign bit is extended by the cast.
subgroup_gen(log_size) ==
    LET shifted == Pow2(M31_CIRCLE_LOG_ORDER - log_size)
    IN IF shifted >= Pow2(WordBits - 1)
         THEN UsizeModulus - WordModulus + shifted
         ELSE shifted
subgroup_gen_panics(log_size) == log_size > M31_CIRCLE_LOG_ORDER

CirclePointIndex_reduce(i) == i % Pow2(M31_CIRCLE_LOG_ORDER)
CirclePointIndex_add(a, b) == CirclePointIndex_reduce((a + b) % UsizeModulus)
CirclePointIndex_mul(a, rhs) == (a * rhs) % Pow2(M31_CIRCLE_LOG_ORDER)

RECURSIVE to_point_loop(_, _, _)
to_point_loop(res, generator, n) ==
    IF n = 0 THEN res
    ELSE to_point_loop(IF n % 2 = 1 THEN CirclePoint_add(res, generator) ELSE res,
                       CirclePoint_add(generator, generator), n \div 2)

\* CirclePointIndex::to_point.
to_point(n) == to_point_loop([x |-> 0, y |-> 1], M31_CIRCLE_GEN, n)

Coset_new_panics(log_size) == log_size > M31_CIRCLE_LOG_ORDER
Coset_new(initial_index, log_size) ==
    [initial_index |-> initial_index,
     initial |-> to_point(initial_index),
     step_size |-> subgroup_gen(log_size),
     step |-> to_point(subgroup_gen(log_size)),
     log_size |-> log_size]
half_odds_panics(log_size) == subgroup_gen_panics(log_size + 2)
half_odds(log_size) == Coset_new(subgroup_gen(log_size + 2), log_size)
Coset_at(coset, index) ==
    to_point(CirclePointIndex_add(coset.initial_index,
                                  CirclePointIndex_mul(coset.step_size, index)))
Coset_index_at(coset, domain_index) == coset.initial_index
\* Coset::double; the code asserts log_size > 0.
Coset_double(coset) ==
    [initial_index |-> coset.initial_index,
     initial |-> CirclePoint_add(coset.initial, coset.initial),
     step_size |-> coset.step_size,
     step |-> CirclePoint_add(coset.step, coset.step),
     log_size |-> saturating_sub(coset.log_size, 1)]

RECURSIVE Coset_repeated_double(_, _)
Coset_repeated_double(coset, n_doubles) ==
    IF n_doubles = 0 THEN coset
    ELSE Coset_repeated_double(Coset_double(coset), n_doubles - 1)

LineDomain_new(coset) == [log_size |-> coset.log_size, coset |-> coset]
LineDomain_at(domain, index) == Coset_at(domain.coset, index).x
LineDomain_double(domain) == LineDomain_new(Coset_double(domain.coset))

RECURSIVE LinePoly_eval_loop(_, _, _)
LinePoly_eval_loop(coeffs, point, evaluation) ==
    IF coeffs = <<>> THEN evaluation
    ELSE LinePoly_eval_loop(SubSeq(coeffs, 1, Len(coeffs) - 1), point,
                            QM31_add(QM31_mul(evaluation, point),
                                     coeffs[Len(coeffs)]))
\* A variant of eval_at_point that takes the coefficients from high to low
\* degree.
LinePoly_eval_at_point_HighToLow(self, point) ==
    LinePoly_eval_loop([i \in 1..Len(self.coeffs) |->
                           self.coeffs[Len(self.coeffs) + 1 - i]],
                       point, QM31_zero)

\* LinePoly::eval_at_point: Horner's method from the highest coefficient.
LinePoly_eval_at_point(self, point) ==
    LinePoly_eval_loop(self.coeffs, point, QM31_zero)

(***************************************************************************)
(* Folding (src/src/fri_utils.rs, src/src/fft_utils.rs, types/fri.rs).     *)
(***************************************************************************)
\* ibutterfly: the pair (a + b, (a - b) * factor).
ibutterfly(a, b, factor) == <<QM31_add(a, b), QM31_mul(QM31_sub(a, b), factor)>>

\* The point whose inverse folds the subset: fold_line reads domain.at(0) of
\* the subset's line domain.
FoldSubsetPoint(source_domain, domain_initial_index) ==
    LET subset_coset == Coset_repeated_double(source_domain.coset,
                                              source_domain.log_size - FOLD_STEP)
        initial_index == Coset_index_at(subset_coset, domain_initial_index)
        fold_domain == LineDomain_new(Coset_new(initial_index, FOLD_STEP))
    IN LineDomain_at(fold_domain, bit_reverse_index(0, fold_domain.log_size))

\* fold_line on an evaluation of two values.
fold_line(eval, x, alpha) ==
    LET b == ibutterfly(eval[1], eval[2], QM31_from_m31(M31_inverse(x)))
    IN QM31_add(b[1], QM31_mul(alpha, b[2]))

\* What makes SparseEvaluation::fold_line panic on one subset: the subtraction
\* log_size - FOLD_STEP (or the assertion of Coset::double after it wrapped),
\* the length assertion of LineEvaluation::new, the inverse of zero.
SparseEvaluation_fold_line_panics(self, source_domain) ==
    \E k \in 1..Len(self.subset_evals) :
        \/ source_domain.log_size < FOLD_STEP
        \/ Len(self.subset_evals[k]) # Pow2(FOLD_STEP)
        \/ FoldSubsetPoint(source_domain, self.subset_domain_initial_indexes[k]) = 0

SparseEvaluation_fold_line(self, fold_alpha, source_domain) ==
    [k \in 1..Len(self.subset_evals) |->
        fold_line(self.subset_evals[k],
                  FoldSubsetPoint(source_domain,
                                  self.subset_domain_initial_indexes[k]),
                  fold_alpha)]

(***************************************************************************)
(* FriVerifier::decommit (src/src/backend.rs).                             *)
(***************************************************************************)
\* LinePolyDegreeBound::fold: -1 stands for None.
LinePolyDegreeBound_fold(log_degree_bound, n_folds) ==
    IF log_degree_bound < n_folds THEN -1 ELSE log_degree_bound - n_folds

RECURSIVE decommit_inner_layers_loop(_, _, _, _, _, _)
\* The loop over self.inner_layers_proof (lines 354-400).  The field
\* iterations of the result is a history: for each iteration that reached
\* compute_decommitment_positions_and_rebuild_evals, the layer_queries and
\* the current_layer_domain it used.
decommit_inner_layers_loop(self, layer_index, layer_queries, current_line_bound, current_layer_domain, layer_query_evals) ==
    IF layer_index > Len(self.inner_layers_proof)
        THEN [result |-> "Ok", msg |-> "", queries |-> layer_queries,
              evals |-> layer_query_evals, iterations |-> <<>>]
    ELSE LET layer_proof == self.inner_layers_proof[layer_index]
             current_folding_alpha == self.folding_alphas[layer_index + 1]
             next_layer_queries == Queries_fold(layer_queries, FOLD_STEP)
             folded_bound == LinePolyDegreeBound_fold(current_line_bound, FOLD_STEP)
             rebuilt == compute_decommitment_positions_and_rebuild_evals(
                            layer_queries, layer_query_evals,
                            layer_proof.fri_witness, FOLD_STEP)
             verified == FriLayerMerkleVerify(layer_proof,
                                              current_layer_domain.log_size,
                                              rebuilt.decommitment_positions,
                                              rebuilt.sparse_evaluation)
             this_iteration == [layer_queries |-> layer_queries,
                                current_layer_domain |-> current_layer_domain]
             early(result, msg) == [result |-> result, msg |-> msg,
                                    queries |-> layer_queries,
                                    evals |-> layer_query_evals,
                                    iterations |-> <<>>]
             failed(result, msg) == [result |-> result, msg |-> msg,
                                     queries |-> layer_queries,
                                     evals |-> layer_query_evals,
                                     iterations |-> <<this_iteration>>]
         IN IF layer_queries.log_domain_size < FOLD_STEP
              THEN early("panic", "")
            ELSE IF folded_bound = -1
              THEN early("InvalidStructure", "Degree bound too small for folding")
            ELSE IF rebuilt.result # "Ok"
              THEN failed(rebuilt.result, rebuilt.msg)
            ELSE IF verified.result # "Ok"
              THEN failed(verified.result, verified.msg)
            ELSE IF SparseEvaluation_fold_line_panics(rebuilt.sparse_evaluation,
                                                      current_layer_domain)
              THEN failed("panic", "")
            ELSE IF current_layer_domain.log_size = 0
              THEN failed("panic", "")
            ELSE LET later == decommit_inner_layers_loop(
                     self, layer_index + 1, next_layer_queries, folded_bound,
                     LineDomain_double(current_layer_domain),
                     SparseEvaluation_fold_line(rebuilt.sparse_evaluation,
                                                current_folding_alpha,
                                                current_layer_domain))
                 IN [later EXCEPT !.iterations = <<this_iteration>> \o @]

\* FriVerifier::decommit_inner_layers.
decommit_inner_layers(self, layer_queries, first_layer_evals) ==
    LET current_line_bound ==
            saturating_sub(self.column_bounds[1], CIRCLE_TO_LINE_FOLD_STEP)
        log_size == current_line_bound + self.config.log_blowup_factor
        current_layer_domain == LineDomain_new(half_odds(log_size))
        failed == [result |-> "panic", msg |-> "", queries |-> layer_queries,
                   evals |-> <<>>, iterations |-> <<>>]
    IN IF half_odds_panics(log_size) THEN failed
       ELSE IF first_layer_evals # <<>>
               /\ SparseEvaluation_fold_line_panics(first_layer_evals[1],
                                                    current_layer_domain)
         THEN failed
       ELSE decommit_inner_layers_loop(
                self, 1, layer_queries, current_line_bound, current_layer_domain,
                IF first_layer_evals = <<>> THEN <<>>
                ELSE SparseEvaluation_fold_line(first_layer_evals[1],
                                                self.folding_alphas[1],
                                                current_layer_domain))

\* FriVerifier::decommit_last_layer: the result kind and message.
decommit_last_layer(self, queries, final_folded_evals) ==
    LET last_layer_log_domain_size ==
            self.config.log_last_layer_degree_bound + self.config.log_blowup_factor
        domain == LineDomain_new(Coset_new(0, last_layer_log_domain_size))
        n == Min({Len(queries.positions), Len(final_folded_evals)})
        expected_eval(k) ==
            LinePoly_eval_at_point(
                self.last_layer_poly[1],
                QM31_from_m31(LineDomain_at(domain,
                    bit_reverse_index(queries.positions[k], domain.log_size))))
    IN IF self.last_layer_poly = <<>>
         THEN [result |-> "InvalidStructure",
               msg |-> "Missing last layer polynomial in proof"]
       ELSE IF Coset_new_panics(last_layer_log_domain_size)
         THEN [result |-> "panic", msg |-> ""]
       ELSE IF queries.log_domain_size # domain.log_size
         THEN [result |-> "InvalidStructure",
               msg |-> "Query domain size mismatch for last layer"]
       ELSE IF Len(queries.positions) # Len(final_folded_evals)
         THEN [result |-> "InvalidStructure",
               msg |-> "Number of queries does not match number of evals for last layer"]
       ELSE IF \E k \in 1..n : final_folded_evals[k] # expected_eval(k)
         THEN [result |-> "FriLastLayerEvaluationsInvalid", msg |-> ""]
       ELSE [result |-> "Ok", msg |-> ""]

\* FriVerifier::decommit_on_queries.
decommit_on_queries(self, queries, fri_input_evaluations) ==
    CHOOSE returned \in UNION {
        IF first.result # "Ok"
          THEN {[result |-> first.result, msg |-> first.msg]}
          ELSE {IF inner.result # "Ok"
                  THEN [result |-> inner.result, msg |-> inner.msg]
                  ELSE decommit_last_layer(self, inner.queries, inner.evals) :
                inner \in {decommit_inner_layers(self, queries, first.evals)}} :
        first \in {decommit_first_layer(self, queries,
                                        fri_input_evaluations)}} : TRUE

\* FriVerifier::decommit: the verifier is consumed by the call.
FriVerifier_decommit(self, fri_input_evaluations) ==
    IF self.queries = <<>>
        THEN [result |-> "FriQueriesNotSampled", msg |-> ""]
        ELSE decommit_on_queries(self, self.queries[1], fri_input_evaluations)

(***************************************************************************)
(* A caller of FriVerifier: commit on a channel, then any sequence of      *)
(* sample_query_positions calls, then decommit (which consumes the         *)
(* verifier).  The arguments are drawn from small sets that include        *)
(* malformed bound lists and proofs.                                       *)
(***************************************************************************)
\* Largest log degree bound handed to FriVerifier::commit.
MaxFriBound == 2
\* Largest number of inner layers of a FRI proof.
MaxInnerLayers == 2
\* Largest number of sample_query_positions calls on one verifier.
MaxSampleCalls == 2

FriFirstRoots == {<<11>>}
FriInnerRoots == {<<12>>, <<13>>}
FriConfigs ==
    [log_blowup_factor : 0..1, log_last_layer_degree_bound : {0},
     n_queries : 0..MaxQueries]
\* Bound lists: empty, sorted and unsorted ones.
FriBoundLists ==
    {<<>>} \cup {<<a>> : a \in 0..MaxFriBound}
           \cup {<<a, b>> : a \in 0..MaxFriBound, b \in 0..MaxFriBound}
FriLayerProof(commitment, full) ==
    [fri_witness |-> IF full THEN <<<<1, 2, 3, 4>>>> ELSE <<>>,
     decommitment |-> [hash_witness |-> IF full THEN <<BogusHash>> ELSE <<>>,
                       column_witness |-> <<>>],
     commitment |-> commitment]
\* Sequences of distinct roots of length at most MaxInnerLayers.
FriInnerCommitments ==
    {s \in UNION {[1..n -> FriInnerRoots] : n \in 0..MaxInnerLayers} :
        \A i, j \in DOMAIN s : i # j => s[i] # s[j]}
FriProofs ==
    {[first_layer |-> FriLayerProof(c, full),
      inner_layers |-> [i \in DOMAIN inner |-> FriLayerProof(inner[i], full)],
      last_layer_poly |-> [coeffs |-> coeffs]] :
        c \in FriFirstRoots, full \in BOOLEAN, inner \in FriInnerCommitments,
        coeffs \in {<<>>, <<<<2, 0, 0, 0>>, <<0, 1, 0, 0>>>>}}
FriColumnLogSizes == {{}, {1}, {0, MaxFriBound}}
FriInputEvaluations ==
    {<<>>, <<<<3, 0, 1, 0>>>>, <<<<3, 0, 1, 0>>, <<0, 5, 0, 0>>>>}
NoFriCall == [config |-> <<>>, proof |-> <<>>, bounds |-> <<>>]
\* No decommit call yet: the queries held by the verifier at the call (an
\* Option) and the evaluations passed.
NoFriDecommitCall == [queries |-> <<>>, fri_input_evaluations |-> <<>>]

FriInit ==
    /\ mk = [args |-> NoArguments, run |-> MerkleIdle]
    /\ pcs = PcsIdle
    /\ lib = LibIdle
    /\ \E channel \in {Blake2sChannel_default} :
          fri = [pc |-> "start", channel |-> channel, before |-> channel,
                 call |-> NoFriCall, verifier |-> NoVerifier, commit |-> "None",
                 n_sample_calls |-> 0, sample |-> "None", positions |-> EmptyMap,
                 decommit |-> "None", decommit_call |-> NoFriDecommitCall,
                 msg |-> ""]

\* let verifier = FriVerifier::commit(channel, config, proof, bounds)
FriCommitCall ==
    /\ fri.pc = "start"
    /\ \E config \in FriConfigs, proof \in FriProofs, bounds \in FriBoundLists :
          LET r == FriVerifier_commit(fri.channel, config, proof, bounds)
          IN fri' = [fri EXCEPT
                        !.pc = IF r.result = "Ok" THEN "committed" ELSE "stopped",
                        !.before = fri.channel,
                        !.channel = r.channel,
                        !.call = [config |-> config, proof |-> proof,
                                  bounds |-> bounds],
                        !.verifier = IF r.result = "Ok" THEN <<r.verifier>>
                                     ELSE NoVerifier,
                        !.commit = r.result,
                        !.msg = r.msg]
    /\ UNCHANGED <<mk, pcs, lib>>

\* verifier.sample_query_positions(channel, column_log_sizes)
FriSampleCall ==
    /\ fri.pc = "committed"
    /\ fri.n_sample_calls < MaxSampleCalls
    /\ \E column_log_sizes \in FriColumnLogSizes :
          LET r == sample_query_positions(fri.verifier[1], fri.channel,
                                          column_log_sizes)
          IN fri' = [fri EXCEPT
                        !.pc = IF r.result = "Ok" THEN "committed" ELSE "stopped",
                        !.channel = r.channel,
                        !.verifier = <<r.verifier>>,
                        !.n_sample_calls = @ + 1,
                        !.sample = r.result,
                        !.positions = r.positions]
    /\ UNCHANGED <<mk, pcs, lib>>

\* verifier.decommit(fri_input_evaluations)
FriDecommitCall ==
    /\ fri.pc = "committed"
    /\ \E fri_input_evaluations \in FriInputEvaluations :
          LET r == FriVerifier_decommit(fri.verifier[1], fri_input_evaluations)
          IN fri' = [fri EXCEPT !.pc = "stopped",
                                !.verifier = NoVerifier,
                                !.decommit = r.result,
                                !.decommit_call =
                                    [queries |-> fri.verifier[1].queries,
                                     fri_input_evaluations |->
                                         fri_input_evaluations],
                                !.msg = r.msg]
    /\ UNCHANGED <<mk, pcs, lib>>

FriNext == FriCommitCall \/ FriSampleCall \/ FriDecommitCall

SpecFri == FriInit /\ [][FriNext]_vars

(***************************************************************************)
(* fri_answers (src/src/quotients.rs).  A sample is a record               *)
(* [point |-> [x, y], value]; a result record carries the result kind.     *)
(***************************************************************************)
\* fields::batch_inverse returns an empty vector whatever the column.
batch_inverse(column) == <<>>

RECURSIVE QM31_pow(_, _)
QM31_pow(x, exp) == IF exp = 0 THEN QM31_one ELSE QM31_mul(x, QM31_pow(x, exp - 1))

\* The derived Ord of CirclePoint<SecureField>: x then y, coordinate by
\* coordinate.
CirclePoint_lt(p, q) ==
    LET a == p.x \o p.y
        b == q.x \o q.y
    IN \E i \in 1..Len(a) : a[i] < b[i] /\ \A j \in 1..(i - 1) : a[j] = b[j]

RECURSIVE SortedPoints(_)
\* The keys of a BTreeMap of points in iteration order.
SortedPoints(S) ==
    IF S = {} THEN <<>>
    ELSE LET least == CHOOSE p \in S : \A q \in S \ {p} : CirclePoint_lt(p, q)
         IN <<least>> \o SortedPoints(S \ {least})

\* ColumnSampleBatch::new_vec: one batch per distinct point, in the order of
\* the points; the columns and values of a batch in column order.
ColumnSampleBatch_new_vec(samples) ==
    LET entries == Flatten([c \in 1..Len(samples) |->
                       [k \in 1..Len(samples[c]) |->
                           [point |-> samples[c][k].point, column |-> c - 1,
                            value |-> samples[c][k].value]]])
        points == SortedPoints({entries[i].point : i \in 1..Len(entries)})
    IN [b \in 1..Len(points) |->
           [point |-> points[b],
            columns_and_values |->
                SelectSeq(entries, LAMBDA e : e.point = points[b])]]

\* The assert_ne! of complex_conjugate_line_coeffs.
complex_conjugate_line_coeffs_panics(sample) ==
    sample.point.x = QM31_complex_conjugate(sample.point.x)

complex_conjugate_line_coeffs(sample, alpha) ==
    LET a == QM31_sub(QM31_complex_conjugate(sample.value), sample.value)
        c == QM31_sub(QM31_complex_conjugate(sample.point.y), sample.point.y)
        b == QM31_sub(QM31_mul(sample.value, c), QM31_mul(a, sample.point.y))
    IN <<QM31_mul(alpha, a), QM31_mul(alpha, b), QM31_mul(alpha, c)>>

\* column_line_coeffs: alpha is multiplied by random_coeff before each column.
column_line_coeffs(sample_batches, random_coeff) ==
    [i \in 1..Len(sample_batches) |->
        [k \in 1..Len(sample_batches[i].columns_and_values) |->
            complex_conjugate_line_coeffs(
                [point |-> sample_batches[i].point,
                 value |-> sample_batches[i].columns_and_values[k].value],
                QM31_pow(random_coeff, k))]]

batch_random_coeffs(sample_batches, random_coeff) ==
    [i \in 1..Len(sample_batches) |->
        QM31_pow(random_coeff, Len(sample_batches[i].columns_and_values))]

\* quotient_constants evaluates the line coefficients of every sample of
\* every batch: whether one of them panics.
quotient_constants_panics(sample_batches) ==
    \E i \in 1..Len(sample_batches) :
        complex_conjugate_line_coeffs_panics([point |-> sample_batches[i].point])

quotient_constants(sample_batches, random_coeff) ==
    [line_coeffs |-> column_line_coeffs(sample_batches, random_coeff),
     batch_random_coeffs |-> batch_random_coeffs(sample_batches, random_coeff)]

\* denominator_inverses: one CM31 denominator per batch, handed to
\* batch_inverse.
denominator_inverses(sample_batches, domain_point) ==
    batch_inverse(
        [i \in 1..Len(sample_batches) |->
            LET prx == QM31_0(sample_batches[i].point.x)
                pry == QM31_0(sample_batches[i].point.y)
                pix == QM31_1(sample_batches[i].point.x)
                piy == QM31_1(sample_batches[i].point.y)
            IN CM31_sub(CM31_mul(CM31_sub(prx, <<domain_point.x, 0>>), piy),
                        CM31_mul(CM31_sub(pry, <<domain_point.y, 0>>), pix))])

RECURSIVE accumulate_row_numerator(_, _, _, _, _)
\* The inner loop over the columns of one batch; a column index beyond the
\* row panics.
accumulate_row_numerator(columns_and_values, line_coeffs, queried_values_at_row, domain_point, k) ==
    IF k > Len(columns_and_values) THEN [result |-> "Ok", value |-> QM31_zero]
    ELSE IF columns_and_values[k].column >= Len(queried_values_at_row)
        THEN [result |-> "panic", value |-> QM31_zero]
    ELSE LET rest == accumulate_row_numerator(columns_and_values, line_coeffs,
                                              queried_values_at_row,
                                              domain_point, k + 1)
             value == QM31_mul(
                          QM31_from_m31(
                              queried_values_at_row[columns_and_values[k].column + 1]),
                          line_coeffs[k][3])
             linear_term == QM31_add(QM31_mul(line_coeffs[k][1],
                                              QM31_from_m31(domain_point.y)),
                                     line_coeffs[k][2])
         IN [result |-> rest.result,
             value |-> QM31_add(QM31_sub(value, linear_term), rest.value)]

RECURSIVE accumulate_row_batches(_, _, _, _, _, _)
\* The accumulator after the first n iterations of the izip! loop of
\* accumulate_row_quotients.
accumulate_row_batches(sample_batches, queried_values_at_row, constants, inverses, domain_point, n) ==
    IF n = 0 THEN [result |-> "Ok", value |-> QM31_zero]
    ELSE LET before == accumulate_row_batches(sample_batches,
                                              queried_values_at_row, constants,
                                              inverses, domain_point, n - 1)
             numerator == accumulate_row_numerator(
                              sample_batches[n].columns_and_values,
                              constants.line_coeffs[n], queried_values_at_row,
                              domain_point, 1)
         IN IF before.result # "Ok" THEN before
            ELSE IF numerator.result # "Ok" THEN numerator
            ELSE [result |-> "Ok",
                  value |-> QM31_add(
                      QM31_mul(before.value, constants.batch_random_coeffs[n]),
                      QM31_mul_cm31(numerator.value, inverses[n]))]

\* accumulate_row_quotients: izip! stops with its shortest argument.
accumulate_row_quotients(sample_batches, queried_values_at_row, constants, domain_point) ==
    LET inverses == denominator_inverses(sample_batches, domain_point)
    IN accumulate_row_batches(
           sample_batches, queried_values_at_row, constants, inverses,
           domain_point,
           Min({Len(sample_batches), Len(constants.line_coeffs),
                Len(constants.batch_random_coeffs), Len(inverses)}))

RECURSIVE fri_answers_row(_, _, _, _, _)
\* The loop over column_indices for one query position: each column of the
\* group takes the next value of the iterator that its own index selects.
fri_answers_row(queried_values_iters, column_indices, n_columns_for_group, g, queried_values_at_row) ==
    IF g > Len(column_indices)
        THEN [result |-> "Ok", iters |-> queried_values_iters,
              row |-> queried_values_at_row]
    ELSE IF n_columns_for_group[g] = 0
        THEN fri_answers_row(queried_values_iters, column_indices,
                             n_columns_for_group, g + 1, queried_values_at_row)
    ELSE IF column_indices[g] >= Len(queried_values_iters)
        THEN [result |-> "panic", iters |-> queried_values_iters,
              row |-> queried_values_at_row]
    ELSE IF queried_values_iters[column_indices[g] + 1] = <<>>
        THEN [result |-> "InvalidStructure", iters |-> queried_values_iters,
              row |-> queried_values_at_row]
    ELSE fri_answers_row(
             [queried_values_iters EXCEPT ![column_indices[g] + 1] = Tail(@)],
             column_indices, n_columns_for_group, g + 1,
             Append(queried_values_at_row,
                    Head(queried_values_iters[column_indices[g] + 1])))

RECURSIVE fri_answers_rows(_, _, _, _, _, _, _, _)
\* The loop over the query positions of fri_answers_for_log_size.
fri_answers_rows(log_size, sample_batches, constants, query_positions, queried_values_iters, column_indices, n_columns_for_group, answers) ==
    IF query_positions = <<>>
        THEN [result |-> "Ok", msg |-> "", iters |-> queried_values_iters,
              answers |-> answers]
    ELSE CHOOSE returned \in UNION {
           IF row.result = "panic"
             THEN {[result |-> "panic", msg |-> "", iters |-> row.iters,
                    answers |-> answers]}
           ELSE IF row.result # "Ok"
             THEN {[result |-> row.result, msg |-> "Insufficient values",
                    iters |-> row.iters, answers |-> answers]}
           ELSE {IF quotient.result # "Ok"
                   THEN [result |-> "panic", msg |-> "", iters |-> row.iters,
                         answers |-> answers]
                   ELSE fri_answers_rows(
                            log_size, sample_batches, constants,
                            Tail(query_positions), row.iters, column_indices,
                            n_columns_for_group,
                            Append(answers, quotient.value)) :
                 quotient \in {accumulate_row_quotients(
                                   sample_batches, row.row, constants,
                                   Coset_at(Coset_new(0, log_size),
                                            bit_reverse_index(
                                                Head(query_positions),
                                                log_size)))}} :
           row \in {fri_answers_row(queried_values_iters, column_indices,
                                    n_columns_for_group, 1, <<>>)}} : TRUE

fri_answers_for_log_size(log_size, samples, column_indices, random_coeff, query_positions, queried_values_iters, n_columns_for_group) ==
    CHOOSE returned \in {
        IF quotient_constants_panics(sample_batches)
           \/ CircleDomain_new_panics(log_size)
          THEN [result |-> "panic", msg |-> "", iters |-> queried_values_iters,
                answers |-> <<>>]
          ELSE fri_answers_rows(log_size, sample_batches,
                                quotient_constants(sample_batches, random_coeff),
                                query_positions, queried_values_iters,
                                column_indices, n_columns_for_group, <<>>) :
        sample_batches \in {ColumnSampleBatch_new_vec(samples)}} : TRUE

\* The tree a flat column index falls in (0-based), as the `while` loop of
\* fri_answers finds it: the number of trees when the index is beyond them.
fri_answers_tree_idx(column_log_sizes, original_index) ==
    LET ends == [t \in 1..Len(column_log_sizes) |->
                    Len(Flatten(Take(column_log_sizes, t)))]
        holding == {t \in 1..Len(column_log_sizes) : original_index < ends[t]}
    IN IF holding = {} THEN Len(column_log_sizes) ELSE Min(holding) - 1

RECURSIVE fri_answers_log_sizes(_, _, _, _, _, _, _, _)
\* The loop `for log_size_u32 in sorted_log_sizes`, from the largest log size
\* down; acc carries the iterators and results_by_log_size.
fri_answers_log_sizes(sorted_log_sizes, acc, column_log_sizes, flat_samples, random_coeff, query_positions_per_log_size, n_columns_per_log_size, indices_by_log_size) ==
    IF sorted_log_sizes = <<>> \/ acc.result # "Ok" THEN acc
    ELSE LET log_size == Head(sorted_log_sizes)
             indices == indices_by_log_size[log_size]
             tree_idx(g) == fri_answers_tree_idx(column_log_sizes, indices[g])
         IN IF \E g \in 1..Len(indices) : indices[g] >= Len(flat_samples)
              THEN [acc EXCEPT !.result = "panic"]
            ELSE IF \E g \in 1..Len(indices) :
                        tree_idx(g) >= Len(n_columns_per_log_size)
              THEN [acc EXCEPT !.result = "InvalidStructure",
                               !.msg = "Mismatch (tree_idx)"]
            ELSE IF log_size \notin DOMAIN query_positions_per_log_size
              THEN fri_answers_log_sizes(
                       Tail(sorted_log_sizes),
                       [acc EXCEPT !.results_by_log_size =
                                       MapInsert(@, log_size, <<>>)],
                       column_log_sizes, flat_samples, random_coeff,
                       query_positions_per_log_size, n_columns_per_log_size,
                       indices_by_log_size)
            ELSE CHOOSE returned \in {
                   IF answers.result # "Ok"
                     THEN [acc EXCEPT !.result = answers.result,
                                      !.msg = answers.msg,
                                      !.iters = answers.iters]
                     ELSE fri_answers_log_sizes(
                              Tail(sorted_log_sizes),
                              [acc EXCEPT !.iters = answers.iters,
                                          !.results_by_log_size =
                                              MapInsert(@, log_size,
                                                        answers.answers)],
                              column_log_sizes, flat_samples, random_coeff,
                              query_positions_per_log_size,
                              n_columns_per_log_size, indices_by_log_size) :
                   answers \in {fri_answers_for_log_size(
                       log_size,
                       [g \in 1..Len(indices) |-> flat_samples[indices[g] + 1]],
                       indices, random_coeff,
                       query_positions_per_log_size[log_size], acc.iters,
                       [g \in 1..Len(indices) |->
                           IF log_size \in
                                  DOMAIN n_columns_per_log_size[tree_idx(g) + 1]
                             THEN n_columns_per_log_size[tree_idx(g) + 1][log_size]
                             ELSE 0])}} : TRUE

\* fri_answers: the result and, when Ok, one vector of answers per column.
fri_answers(column_log_sizes, samples, random_coeff, query_positions_per_log_size, queried_values, n_columns_per_log_size) ==
    LET flat_log_sizes == Flatten(column_log_sizes)
        flat_samples == Flatten(samples)
        indices_by_log_size ==
            [l \in Range(flat_log_sizes) |->
                SelectSeq([i \in 1..Len(flat_log_sizes) |-> i - 1],
                          LAMBDA i : flat_log_sizes[i + 1] = l)]
        sorted_log_sizes ==
            LET up == SortedSeq(Range(flat_log_sizes))
            IN [i \in 1..Len(up) |-> up[Len(up) + 1 - i]]
    IN CHOOSE returned \in {
           IF done.result # "Ok"
             THEN [result |-> done.result, msg |-> done.msg, answers |-> <<>>]
           ELSE IF \E t \in 1..Len(done.iters) : done.iters[t] # <<>>
             THEN [result |-> "InvalidStructure",
                   msg |-> "Not all queried values were consumed",
                   answers |-> <<>>]
           ELSE [result |-> "Ok", msg |-> "",
                 answers |-> [i \in 1..Len(flat_log_sizes) |->
                                 done.results_by_log_size[flat_log_sizes[i]]]] :
           done \in {fri_answers_log_sizes(
                        sorted_log_sizes,
                        [result |-> "Ok", msg |-> "", iters |-> queried_values,
                         results_by_log_size |-> EmptyMap],
                        column_log_sizes, flat_samples, random_coeff,
                        query_positions_per_log_size, n_columns_per_log_size,
                        indices_by_log_size)}} : TRUE

(***************************************************************************)
(* Components (src/src/types/component.rs).  A component is an             *)
(* implementation of the Component trait supplied by the caller; here it   *)
(* is a record of what its methods return:                                 *)
(*   max_constraint_log_degree_bound,                                      *)
(*   preproccessed_column_indices,                                         *)
(*   mask_counts: per tree and column, how many mask points the column     *)
(*     has (each is the point itself),                                     *)
(*   evaluations: the values evaluate_constraint_quotients_at_point        *)
(*     accumulates.                                                        *)
(***************************************************************************)
Component_mask_points(component, point) ==
    [t \in 1..Len(component.mask_counts) |->
        [c \in 1..Len(component.mask_counts[t]) |->
            [k \in 1..component.mask_counts[t][c] |-> point]]]

\* Components::max_constraint_log_degree_bound unwraps the maximum.
max_constraint_log_degree_bound_panics(components) == components = <<>>
max_constraint_log_degree_bound(components) ==
    Max({components[i].max_constraint_log_degree_bound :
            i \in 1..Len(components)})

\* Components::mask_points.
Components_mask_points(components, n_preprocessed_columns, point) ==
    IF components = <<>> THEN <<>>
    ELSE LET component_masks ==
                 [i \in 1..Len(components) |->
                     Component_mask_points(components[i], point)]
             num_phases == Len(component_masks[1])
             with_phase(phase) ==
                 {i \in 1..Len(components) : phase <= Len(component_masks[i])}
             max_cols_in_phase(phase) ==
                 Max({Len(component_masks[i][phase]) : i \in with_phase(phase)})
             column(phase, col) ==
                 Flatten([i \in 1..Len(components) |->
                     IF i \in with_phase(phase)
                        /\ col <= Len(component_masks[i][phase])
                       THEN component_masks[i][phase][col] ELSE <<>>])
             aggregated_masks ==
                 [phase \in 1..num_phases |->
                     [col \in 1..max_cols_in_phase(phase) |-> column(phase, col)]]
             new_preprocessed_phase_columns ==
                 [idx \in 1..n_preprocessed_columns |->
                     IF \E i \in 1..Len(components) :
                            idx - 1 \in Range(components[i].preproccessed_column_indices)
                       THEN <<point>> ELSE <<>>]
         IN IF num_phases > 0 /\ n_preprocessed_columns > 0
              THEN [aggregated_masks EXCEPT ![1] = new_preprocessed_phase_columns]
            ELSE IF num_phases > 0
              THEN [aggregated_masks EXCEPT ![1] = <<>>]
            ELSE aggregated_masks

RECURSIVE PointEvaluationAccumulator_accumulate(_, _, _)
\* accumulate called with each evaluation in turn.
PointEvaluationAccumulator_accumulate(accumulation, random_coeff, evaluations) ==
    IF evaluations = <<>> THEN accumulation
    ELSE PointEvaluationAccumulator_accumulate(
             QM31_add(QM31_mul(accumulation, random_coeff), Head(evaluations)),
             random_coeff, Tail(evaluations))

\* Components::eval_composition_polynomial_at_point.
eval_composition_polynomial_at_point(components, point, mask_values, random_coeff) ==
    PointEvaluationAccumulator_accumulate(
        QM31_zero, random_coeff,
        Flatten([i \in 1..Len(components) |-> components[i].evaluations]))

\* CirclePoint::<SecureField>::get_random_point: the channel after the draw
\* and the point; inverse asserts a non-zero argument.
get_random_point(channel) ==
    LET drawn == draw_felt(channel)
        t == drawn.value
        t_square == QM31_square(t)
        one_plus_tsquared == QM31_add(t_square, QM31_one)
    IN IF one_plus_tsquared = QM31_zero
         THEN [result |-> "panic", channel |-> drawn.channel,
               point |-> [x |-> QM31_zero, y |-> QM31_zero]]
         ELSE LET one_plus_tsquared_inv == QM31_inverse(one_plus_tsquared)
              IN [result |-> "Ok", channel |-> drawn.channel,
                  point |-> [x |-> QM31_mul(QM31_sub(QM31_one, t_square),
                                            one_plus_tsquared_inv),
                             y |-> QM31_mul(QM31_double(t),
                                            one_plus_tsquared_inv)]]

\* SecureField::from_partial_evals.
from_partial_evals(evals) ==
    QM31_add(QM31_add(QM31_add(evals[1], QM31_mul(evals[2], <<0, 1, 0, 0>>)),
                      QM31_mul(evals[3], <<0, 0, 1, 0>>)),
             QM31_mul(evals[4], <<0, 0, 0, 1>>))

\* A variant of the extraction that does not look for a column after the
\* fourth.
extract_composition_oods_eval_ExtraColumnsIgnored(proof) ==
    IF proof.sampled_values = <<>> THEN <<>>
    ELSE LET composition_mask == proof.sampled_values[Len(proof.sampled_values)]
         IN IF Len(composition_mask) < SECURE_EXTENSION_DEGREE
               \/ \E i \in 1..SECURE_EXTENSION_DEGREE : Len(composition_mask[i]) # 1
              THEN <<>>
              ELSE <<from_partial_evals(
                        [i \in 1..SECURE_EXTENSION_DEGREE |->
                            composition_mask[i][1]])>>

\* StarkProof::extract_composition_oods_eval: <<value>>, or <<>> for
\* InvalidOodsSampleStructure.
extract_composition_oods_eval(proof) ==
    IF proof.sampled_values = <<>> THEN <<>>
    ELSE LET composition_mask == proof.sampled_values[Len(proof.sampled_values)]
         IN IF Len(composition_mask) # SECURE_EXTENSION_DEGREE
               \/ \E i \in 1..Len(composition_mask) : Len(composition_mask[i]) # 1
              THEN <<>>
              ELSE <<from_partial_evals(
                        [i \in 1..SECURE_EXTENSION_DEGREE |->
                            composition_mask[i][1]])>>

(***************************************************************************)
(* CommitmentSchemeVerifier (src/src/verifier.rs).  verify_values is a     *)
(* chain of stages over a frame: the locals of the call, the channel, the  *)
(* result ("Running" until the call returns) and `steps`, a history of the *)
(* checks performed with their results.                                    *)
(***************************************************************************)
U32Max == WordModulus - 1
saturating_add(a, b) == IF a + b > U32Max THEN U32Max ELSE a + b

\* sort_unstable followed by reverse.
sort_unstable_reverse(s) ==
    LET up == SortedSeq(Range(s))
    IN Flatten([i \in 1..Len(up) |->
           LET v == up[Len(up) + 1 - i]
           IN [k \in 1..Cardinality({j \in DOMAIN s : s[j] = v}) |-> v]])

CommitmentSchemeVerifier_new(config) ==
    [committed_trees |-> <<>>, config |-> config]

\* A variant of commit that puts the new tree before the earlier ones.
CommitmentSchemeVerifier_commit_TreePrepended(self, commitment, log_degree_bounds, channel) ==
    LET extended_log_sizes ==
            [i \in 1..Len(log_degree_bounds) |->
                saturating_add(log_degree_bounds[i],
                               self.config.fri_config.log_blowup_factor)]
    IN [channel |-> mix_root(channel, commitment),
        self |-> [self EXCEPT !.committed_trees =
                     <<MerkleVerifier_new(commitment, extended_log_sizes)>> \o @]]

\* CommitmentSchemeVerifier::commit: the verifier and the channel afterwards.
CommitmentSchemeVerifier_commit(self, commitment, log_degree_bounds, channel) ==
    LET extended_log_sizes ==
            [i \in 1..Len(log_degree_bounds) |->
                saturating_add(log_degree_bounds[i],
                               self.config.fri_config.log_blowup_factor)]
    IN [channel |-> mix_root(channel, commitment),
        self |-> [self EXCEPT !.committed_trees =
                     Append(@, MerkleVerifier_new(commitment, extended_log_sizes))]]

Step(frame, step, result) ==
    [frame EXCEPT !.steps = Append(@, [step |-> step, result |-> result])]
Return(frame, result, msg) == [frame EXCEPT !.result = result, !.msg = msg]

\* Lines 74-109: the sampled values are mixed, random_coeff is drawn, the
\* single FRI bound is computed and FriVerifier::commit is called.  The
\* frame keeps the bounds handed to the call in fri_verifier_bounds.
verify_values_commit(self, points, proof, channel) ==
    LET flattened_sampled_values == Flatten(Flatten(proof.sampled_values))
        drawn == draw_felt(mix_felts(channel, flattened_sampled_values))
        fri_bounds_u32 ==
            sort_unstable_reverse(
                Flatten([t \in 1..Len(self.committed_trees) |->
                            self.committed_trees[t].column_log_sizes]))
        fri_bounds_for_all_polys ==
            LET unique == Dedup(fri_bounds_u32)
            IN [i \in 1..Len(unique) |->
                   saturating_sub(unique[i],
                                  self.config.fri_config.log_blowup_factor)]
        effective_fri_input_log_degree ==
            IF fri_bounds_for_all_polys = <<>> THEN 0
            ELSE Max(Range(fri_bounds_for_all_polys))
    IN CHOOSE frame \in {
           Step([self |-> self, points |-> points, proof |-> proof,
                 channel |-> committed.channel,
                 result |-> IF committed.result = "Ok" THEN "Running"
                            ELSE committed.result,
                 msg |-> committed.msg,
                 steps |-> <<>>,
                 random_coeff |-> drawn.value,
                 fri_verifier_bounds |-> <<effective_fri_input_log_degree>>,
                 fri_verifier |-> IF committed.result = "Ok"
                                  THEN <<committed.verifier>> ELSE <<>>,
                 nonce_zeros |-> <<>>,
                 positions |-> EmptyMap,
                 samples |-> <<>>,
                 answers |-> <<>>],
                "FriVerifier::commit", committed.result) :
           committed \in {FriVerifier_commit(
                             drawn.channel, self.config.fri_config,
                             proof.fri_proof,
                             <<effective_fri_input_log_degree>>)}} : TRUE

\* A variant of the proof-of-work stage that mixes the nonce and goes on
\* whatever the number of trailing zeros.
verify_values_proof_of_work_Unchecked(frame) ==
    IF frame.result # "Running" THEN frame
    ELSE LET mixed == mix_u64(frame.channel, frame.proof.proof_of_work)
         IN Step([frame EXCEPT !.channel = mixed,
                               !.nonce_zeros = <<trailing_zeros(mixed)>>],
                 "proof_of_work", "Ok")

\* Lines 111-114: the nonce is mixed and the trailing zeros are checked.
verify_values_proof_of_work(frame) ==
    IF frame.result # "Running" THEN frame
    ELSE LET mixed == mix_u64(frame.channel, frame.proof.proof_of_work)
             after == [frame EXCEPT !.channel = mixed,
                                    !.nonce_zeros = <<trailing_zeros(mixed)>>]
         IN IF trailing_zeros(mixed) < frame.self.config.pow_bits
              THEN Return(Step(after, "proof_of_work", "ProofOfWork"),
                          "ProofOfWork", "")
              ELSE Step(after, "proof_of_work", "Ok")

\* Lines 116-121: the query positions are sampled.
verify_values_sample(frame) ==
    IF frame.result # "Running" THEN frame
    ELSE LET unique_column_log_sizes ==
                 UNION {Range(frame.self.committed_trees[t].column_log_sizes) :
                           t \in 1..Len(frame.self.committed_trees)}
         IN CHOOSE after \in {
                Step([frame EXCEPT
                         !.channel = sampled.channel,
                         !.fri_verifier = <<sampled.verifier>>,
                         !.positions = sampled.positions,
                         !.result = IF sampled.result = "Ok" THEN "Running"
                                    ELSE sampled.result],
                     "sample_query_positions", sampled.result) :
                sampled \in {sample_query_positions(
                                frame.fri_verifier[1], frame.channel,
                                unique_column_log_sizes)}} : TRUE

\* Lines 123-128.
verify_values_structure(frame) ==
    IF frame.result # "Running" THEN frame
    ELSE IF Len(frame.self.committed_trees) # Len(frame.proof.decommitments)
            \/ Len(frame.self.committed_trees) # Len(frame.proof.queried_values)
        THEN Return(Step(frame, "structure", "InvalidStructure"),
                    "InvalidStructure", "Proof structure mismatch")
        ELSE Step(frame, "structure", "Ok")

RECURSIVE verify_values_trees_ErrorsIgnored(_, _)
\* A variant of the loop over the trees that records a failed Merkle
\* verification and goes on.
verify_values_trees_ErrorsIgnored(frame, t) ==
    IF frame.result # "Running" \/ t > Len(frame.self.committed_trees) THEN frame
    ELSE CHOOSE after \in {
             verify_values_trees_ErrorsIgnored(
                 Step(frame, "MerkleVerifier::verify", verified), t + 1) :
             verified \in {MerkleVerifier_verify(
                              frame.self.committed_trees[t], frame.positions,
                              frame.proof.queried_values[t],
                              frame.proof.decommitments[t])}} : TRUE

RECURSIVE verify_values_trees(_, _)
\* Lines 130-134: try_for_each over the trees with their decommitments and
\* queried values; the first failure is returned.
verify_values_trees(frame, t) ==
    IF frame.result # "Running" \/ t > Len(frame.self.committed_trees) THEN frame
    ELSE CHOOSE after \in {
             IF verified # "Ok"
               THEN Return(Step(frame, "MerkleVerifier::verify", verified),
                           verified, "")
               ELSE verify_values_trees(
                        Step(frame, "MerkleVerifier::verify", verified), t + 1) :
             verified \in {MerkleVerifier_verify(
                              frame.self.committed_trees[t], frame.positions,
                              frame.proof.queried_values[t],
                              frame.proof.decommitments[t])}} : TRUE

\* Lines 136-168: the points are paired with the sampled values; the first
\* mismatch of a count is returned.
verify_values_samples(frame) ==
    IF frame.result # "Running" THEN frame
    ELSE LET points == frame.points
             values == frame.proof.sampled_values
             columns_differ(t) == Len(points[t]) # Len(values[t])
             samples_differ(t) ==
                 /\ ~columns_differ(t)
                 /\ \E c \in 1..Len(points[t]) :
                        Len(points[t][c]) # Len(values[t][c])
             bad == {t \in 1..Len(points) : columns_differ(t) \/ samples_differ(t)}
         IN IF Len(points) # Len(values)
              THEN Return(Step(frame, "samples", "InvalidStructure"),
                          "InvalidStructure",
                          "Mismatch between points and sampled_values tree count")
            ELSE IF bad # {}
              THEN Return(Step(frame, "samples", "InvalidStructure"),
                          "InvalidStructure",
                          IF columns_differ(Min(bad))
                            THEN "Mismatch between points and sampled_values column count in tree"
                            ELSE "Mismatch between points and sampled_values sample count in column")
            ELSE Step([frame EXCEPT !.samples =
                          [t \in 1..Len(points) |->
                              [c \in 1..Len(points[t]) |->
                                  [k \in 1..Len(points[t][c]) |->
                                      [point |-> points[t][c][k],
                                       value |-> values[t][c][k]]]]]],
                      "samples", "Ok")

\* Lines 170-193: fri_answers, then the first answer of every column
\* (Vec::remove(0) panics on an empty vector).
verify_values_fri_answers(frame) ==
    IF frame.result # "Running" THEN frame
    ELSE CHOOSE after \in {
             IF answered.result # "Ok"
               THEN Return(Step(frame, "fri_answers", answered.result),
                           answered.result, answered.msg)
             ELSE IF \E i \in 1..Len(answered.answers) : answered.answers[i] = <<>>
               THEN Return(Step(frame, "fri_answers", "Ok"), "panic", "")
             ELSE Step([frame EXCEPT !.answers =
                           [i \in 1..Len(answered.answers) |->
                               answered.answers[i][1]]],
                       "fri_answers", "Ok") :
             answered \in {fri_answers(
                 [t \in 1..Len(frame.self.committed_trees) |->
                     frame.self.committed_trees[t].column_log_sizes],
                 frame.samples, frame.random_coeff, frame.positions,
                 frame.proof.queried_values,
                 [t \in 1..Len(frame.self.committed_trees) |->
                     frame.self.committed_trees[t].n_columns_per_log_size])}} : TRUE

\* Lines 195-197.
verify_values_decommit(frame) ==
    IF frame.result # "Running" THEN frame
    ELSE CHOOSE after \in {
             Return(Step([frame EXCEPT !.fri_verifier = <<>>],
                         "FriVerifier::decommit", decommitted.result),
                    decommitted.result, decommitted.msg) :
             decommitted \in {FriVerifier_decommit(frame.fri_verifier[1],
                                                   frame.answers)}} : TRUE

\* CommitmentSchemeVerifier::verify_values: the frame when the call returns.
verify_values(self, points, proof, channel) ==
    CHOOSE returned \in {
        verify_values_decommit(answered) :
        answered \in {verify_values_fri_answers(paired) :
        paired \in {verify_values_samples(verified) :
        verified \in {verify_values_trees(shaped, 1) :
        shaped \in {verify_values_structure(sampled) :
        sampled \in {verify_values_sample(worked) :
        worked \in {verify_values_proof_of_work(committed) :
        committed \in {verify_values_commit(self, points, proof,
                                            channel)}}}}}}}} : TRUE

PREPROCESSED_TRACE_IDX == 0

\* What verify returns when it does not reach verify_values.
VerifyReturn(result, msg, channel, commitment_scheme, oods) ==
    [result |-> result, msg |-> msg, channel |-> channel,
     commitment_scheme |-> commitment_scheme, oods |-> oods,
     invoked |-> FALSE, steps |-> <<>>, positions |-> EmptyMap,
     nonce_zeros |-> <<>>]

\* A variant of the comparison of the two composition values that accepts
\* any pair.
oods_matching_Always(composition_oods_eval, actual_composition_eval) == TRUE

\* composition_oods_eval != actual_composition_eval, negated.
oods_matching(composition_oods_eval, actual_composition_eval) ==
    composition_oods_eval = actual_composition_eval

\* The second half of verify, from get_random_point on (lines 237-258).
verify_oods(components, n_preprocessed_columns, random_coeff, channel, commitment_scheme, proof) ==
    CHOOSE returned \in UNION {
        IF drawn.result = "panic"
          THEN {VerifyReturn("panic", "", drawn.channel, commitment_scheme, <<>>)}
        ELSE IF extract_composition_oods_eval(proof) = <<>>
          THEN {VerifyReturn("InvalidStructure",
                             "Unexpected sampled_values structure",
                             drawn.channel, commitment_scheme, <<>>)}
        ELSE LET oods_point == drawn.point
                 sample_points ==
                     Append(Components_mask_points(components,
                                                   n_preprocessed_columns,
                                                   oods_point),
                            [i \in 1..SECURE_EXTENSION_DEGREE |-> <<oods_point>>])
                 composition_oods_eval == extract_composition_oods_eval(proof)[1]
                 actual_composition_eval ==
                     eval_composition_polynomial_at_point(
                         components, oods_point, proof.sampled_values,
                         random_coeff)
                 oods == <<composition_oods_eval, actual_composition_eval>>
             IN IF ~oods_matching(composition_oods_eval, actual_composition_eval)
                  THEN {VerifyReturn("OodsNotMatching", "", drawn.channel,
                                     commitment_scheme, oods)}
                  ELSE {[result |-> frame.result, msg |-> frame.msg,
                         channel |-> frame.channel,
                         commitment_scheme |-> commitment_scheme,
                         oods |-> oods, invoked |-> TRUE,
                         steps |-> frame.steps, positions |-> frame.positions,
                         nonce_zeros |-> frame.nonce_zeros] :
                        frame \in {verify_values(commitment_scheme, sample_points,
                                                 proof, drawn.channel)}} :
        drawn \in {get_random_point(channel)}} : TRUE

\* verify (lines 201-259).
verify(components, channel, commitment_scheme, proof) ==
    IF Len(commitment_scheme.committed_trees) <= PREPROCESSED_TRACE_IDX
        THEN VerifyReturn("InvalidStructure", "Not enough committed trees",
                          channel, commitment_scheme, <<>>)
    ELSE LET n_preprocessed_columns ==
                 Len(commitment_scheme.committed_trees[PREPROCESSED_TRACE_IDX + 1]
                         .column_log_sizes)
             drawn == draw_felt(channel)
         IN IF max_constraint_log_degree_bound_panics(components)
              THEN VerifyReturn("panic", "", drawn.channel, commitment_scheme, <<>>)
            ELSE IF proof.commitments = <<>>
              THEN VerifyReturn("InvalidStructure",
                                "Missing composition commitment",
                                drawn.channel, commitment_scheme, <<>>)
            ELSE CHOOSE returned \in {
                   verify_oods(components, n_preprocessed_columns, drawn.value,
                               committed.channel, committed.self, proof) :
                   committed \in {CommitmentSchemeVerifier_commit(
                       commitment_scheme,
                       proof.commitments[Len(proof.commitments)],
                       [i \in 1..SECURE_EXTENSION_DEGREE |->
                           max_constraint_log_degree_bound(components)],
                       drawn.channel)}} : TRUE

(***************************************************************************)
(* A caller of the commitment scheme verifier: it commits up to MaxTrees   *)
(* trees of known columns and then calls verify with a list of components  *)
(* and a proof, or verify_values with sample points and a proof.  The      *)
(* proof is the one an honest prover sends for the committed trees (roots, *)
(* canonical openings at the positions the transcript yields, a            *)
(* composition value equal to the evaluators' value), or that proof with   *)
(* one part changed.                                                       *)
(***************************************************************************)
\* Largest number of trees the caller commits before the call.
MaxTrees == 2
\* Largest log degree bound of a committed column.
MaxColumnBound == 1
\* Largest proof-of-work nonce tried.
MaxNonce == 1

PcsConfigs ==
    [pow_bits : {0, 2},
     fri_config : [log_blowup_factor : 0..1, log_last_layer_degree_bound : {0},
                   n_queries : 1..MaxQueries]]
\* The log degree bounds of the columns of one committed tree.
PcsColumnBounds == {<<>>} \cup {<<b>> : b \in 0..MaxColumnBound}
PcsFriProofs ==
    {p \in FriProofs : /\ p.first_layer.fri_witness # <<>>
                       /\ p.last_layer_poly.coeffs # <<>>
                       /\ Len(p.inner_layers) <= 1
                       /\ \A i \in DOMAIN p.inner_layers :
                              p.inner_layers[i].commitment = <<12>>}
PcsProofKinds ==
    {"honest", "no_commitments", "oods_mismatch", "composition_columns",
     "extra_sampled_tree", "value_flip", "decommitment_missing"}

\* One component over the committed trees: every column has one mask point.
PcsComponent(commitment_scheme, bound) ==
    [max_constraint_log_degree_bound |-> bound,
     preproccessed_column_indices |->
        IF commitment_scheme.committed_trees = <<>> THEN <<>>
        ELSE [i \in 1..Len(commitment_scheme.committed_trees[1].column_log_sizes)
                 |-> i - 1],
     mask_counts |->
        [t \in 1..Len(commitment_scheme.committed_trees) |->
            [c \in 1..Len(commitment_scheme.committed_trees[t].column_log_sizes)
                |-> 1]],
     evaluations |-> <<<<2, 1, 0, 0>>, <<1, 0, 3, 0>>>>]
PcsComponentLists(commitment_scheme) ==
    {<<>>} \cup {<<PcsComponent(commitment_scheme, b)>> : b \in 0..MaxColumnBound}

\* The sample point of a direct verify_values call.
PcsPoint == [x |-> <<1, 0, 2, 0>>, y |-> <<0, 1, 0, 3>>]
PcsSampledValue == <<1, 0, 0, 0>>

\* The sampled values matching the points, the last tree holding the
\* composition value when there is one.
PcsSampledValues(points, composition) ==
    [t \in 1..Len(points) |->
        [c \in 1..Len(points[t]) |->
            [k \in 1..Len(points[t][c]) |->
                IF composition # <<>> /\ t = Len(points)
                  THEN (IF c = 1 THEN composition[1] ELSE QM31_zero)
                  ELSE PcsSampledValue]]]

\* The proof for the trees (those committed and, under verify, the
\* composition tree), before the openings are known.
PcsProofBase(trees, points, composition, kind, nonce, fri_proof) ==
    LET values == PcsSampledValues(
                      points,
                      IF composition # <<>> /\ kind = "oods_mismatch"
                        THEN <<QM31_add(composition[1], QM31_one)>>
                        ELSE composition)
    IN [commitments |-> IF kind = "no_commitments" THEN <<>>
                        ELSE [t \in 1..Len(trees) |-> TreeRoot(trees[t])],
        sampled_values |->
            CASE kind = "composition_columns" ->
                     [values EXCEPT ![Len(values)] = DropLast(@)]
              [] kind = "extra_sampled_tree" -> <<<<>>>> \o values
              [] OTHER -> values,
        decommitments |-> <<>>,
        queried_values |-> <<>>,
        proof_of_work |-> nonce,
        fri_proof |-> fri_proof]

\* The same proof with the openings of the trees at the given positions.
PcsProofOpened(base, trees, positions, kind) ==
    LET opening(t) == CanonicalOpening(trees[t], positions)
        all == [t \in 1..Len(trees) |-> opening(t)]
        with_values == {t \in 1..Len(trees) : all[t].queried_values # <<>>}
    IN [base EXCEPT
           !.decommitments =
               LET d == [t \in 1..Len(trees) |->
                            [hash_witness |-> all[t].hash_witness,
                             column_witness |-> all[t].column_witness]]
               IN IF kind = "decommitment_missing" THEN DropLast(d) ELSE d,
           !.queried_values =
               [t \in 1..Len(trees) |->
                   IF kind = "value_flip" /\ with_values # {}
                      /\ t = Min(with_values)
                     THEN FlipFirstValue(all[t].queried_values)
                     ELSE all[t].queried_values]]

NoPcsCall ==
    [entry |-> "None", components |-> <<>>, points |-> <<>>, kind |-> "honest",
     proof |-> <<>>]
NoPcsRun ==
    [result |-> "None", msg |-> "", oods |-> <<>>, invoked |-> FALSE,
     steps |-> <<>>, positions |-> EmptyMap, nonce_zeros |-> <<>>]

PcsInit ==
    /\ mk = [args |-> NoArguments, run |-> MerkleIdle]
    /\ fri = FriIdle
    /\ lib = LibIdle
    /\ \E config \in PcsConfigs :
          pcs = [pc |-> "open",
                 channel |-> Blake2sChannel_default,
                 before |-> Blake2sChannel_default,
                 commitment_scheme |-> CommitmentSchemeVerifier_new(config),
                 call |-> NoPcsCall,
                 run |-> NoPcsRun]

\* commitment_scheme.commit(root, log_degree_bounds, channel) for a tree of
\* known columns.
PcsCommitCall ==
    /\ pcs.pc = "open"
    /\ Len(pcs.commitment_scheme.committed_trees) < MaxTrees
    /\ \E log_degree_bounds \in PcsColumnBounds :
          LET blowup == pcs.commitment_scheme.config.fri_config.log_blowup_factor
              root == TreeRoot([i \in 1..Len(log_degree_bounds) |->
                                   saturating_add(log_degree_bounds[i], blowup)])
              r == CommitmentSchemeVerifier_commit(
                       pcs.commitment_scheme, root, log_degree_bounds,
                       pcs.channel)
          IN pcs' = [pcs EXCEPT !.channel = r.channel,
                                !.commitment_scheme = r.self]
    /\ UNCHANGED <<mk, fri, lib>>

\* verify(components, channel, commitment_scheme, proof)
PcsVerifyCall ==
    /\ pcs.pc = "open"
    /\ \E components \in PcsComponentLists(pcs.commitment_scheme),
          kind \in PcsProofKinds, nonce \in 0..MaxNonce,
          fri_proof \in PcsFriProofs :
          LET self == pcs.commitment_scheme
              committed == [t \in 1..Len(self.committed_trees) |->
                               self.committed_trees[t].column_log_sizes]
              composition_log_size ==
                  saturating_add(
                      IF components = <<>> THEN 0
                      ELSE max_constraint_log_degree_bound(components),
                      self.config.fri_config.log_blowup_factor)
              trees == Append(committed,
                              [i \in 1..SECURE_EXTENSION_DEGREE |->
                                  composition_log_size])
              points ==
                  Append(Components_mask_points(
                             components,
                             IF committed = <<>> THEN 0 ELSE Len(committed[1]),
                             PcsPoint),
                         [i \in 1..SECURE_EXTENSION_DEGREE |-> <<PcsPoint>>])
              composition ==
                  <<eval_composition_polynomial_at_point(
                        components, PcsPoint, <<>>,
                        draw_felt(pcs.channel).value)>>
          IN \E base \in {PcsProofBase(trees, points, composition, kind, nonce,
                                       fri_proof)} :
             \E probe \in {verify(components, pcs.channel, self, base)} :
             \E proof \in {PcsProofOpened(base, trees, probe.positions, kind)} :
             \E returned \in {verify(components, pcs.channel, self, proof)} :
                pcs' = [pc |-> "returned",
                        channel |-> returned.channel,
                        before |-> pcs.channel,
                        commitment_scheme |-> returned.commitment_scheme,
                        call |-> [entry |-> "verify", components |-> components,
                                  points |-> <<>>, kind |-> kind,
                                  proof |-> proof],
                        run |-> [result |-> returned.result,
                                 msg |-> returned.msg,
                                 oods |-> returned.oods,
                                 invoked |-> returned.invoked,
                                 steps |-> returned.steps,
                                 positions |-> returned.positions,
                                 nonce_zeros |-> returned.nonce_zeros]]
    /\ UNCHANGED <<mk, fri, lib>>

\* commitment_scheme.verify_values(points, proof, channel)
PcsVerifyValuesCall ==
    /\ pcs.pc = "open"
    /\ \E kind \in {"honest", "extra_sampled_tree", "value_flip",
                    "decommitment_missing"},
          nonce \in 0..MaxNonce, fri_proof \in PcsFriProofs :
          LET self == pcs.commitment_scheme
              trees == [t \in 1..Len(self.committed_trees) |->
                           self.committed_trees[t].column_log_sizes]
              points == [t \in 1..Len(trees) |->
                            [c \in 1..Len(trees[t]) |-> <<PcsPoint>>]]
          IN \E base \in {PcsProofBase(trees, points, <<>>, kind, nonce,
                                       fri_proof)} :
             \E probe \in {verify_values(self, points, base, pcs.channel)} :
             \E proof \in {PcsProofOpened(base, trees, probe.positions, kind)} :
             \E returned \in {verify_values(self, points, proof, pcs.channel)} :
                pcs' = [pc |-> "returned",
                        channel |-> returned.channel,
                        before |-> pcs.channel,
                        commitment_scheme |-> self,
                        call |-> [entry |-> "verify_values",
                                  components |-> <<>>, points |-> points,
                                  kind |-> kind, proof |-> proof],
                        run |-> [result |-> returned.result,
                                 msg |-> returned.msg,
                                 oods |-> <<>>,
                                 invoked |-> TRUE,
                                 steps |-> returned.steps,
                                 positions |-> returned.positions,
                                 nonce_zeros |-> returned.nonce_zeros]]
    /\ UNCHANGED <<mk, fri, lib>>

PcsNext == PcsCommitCall \/ PcsVerifyCall \/ PcsVerifyValuesCall

SpecPcs == PcsInit /\ [][PcsNext]_vars

(***************************************************************************)
(* Claims about MerkleVerifier::verify, checked under SpecMerkle.          *)
(***************************************************************************)
MerkleDone == mk.run.pc = "done"
MerkleNonEmptyTree == mk.args.column_log_sizes # <<>>
MerkleSomeQuery == \E l \in DOMAIN mk.args.queries : mk.args.queries[l] # <<>>
MerkleDepth == IF MerkleNonEmptyTree THEN Max(Range(mk.args.column_log_sizes)) ELSE 0

\* C3 (the claim as stated): for every tree built from known columns and every
\* sorted query set, verify called with the root, the queried values in
\* traversal order and the canonical decommitment returns Ok.
C3_MerkleRoundTripAccepts ==
    (MerkleDone /\ MerkleNonEmptyTree /\ MerkleSomeQuery /\ Untampered(mk.args))
        => mk.run.result = "Ok"

\* C4: for a non-empty tree, verify returns Ok only if exactly one root hash
\* (node 0 of layer 0) was computed, it equals the stored commitment, and the
\* hash witness, the column witness and the queried values are exhausted.
C4_MerkleAcceptanceSound ==
    (MerkleDone /\ MerkleNonEmptyTree /\ mk.run.result = "Ok") =>
        /\ mk.run.layer_log_size = 0
        /\ DOMAIN mk.run.current_layer_hashes = {0}
        /\ mk.run.current_layer_hashes[0] = mk.args.commitment
        /\ mk.run.hash_witness = <<>>
        /\ mk.run.column_witness = <<>>
        /\ mk.run.queried_values_iter = <<>>

\* C4 witness: verify has returned Ok for a non-empty tree.
C4_Witness ==
    MerkleDone /\ MerkleNonEmptyTree /\ mk.run.result = "Ok"

\* The error kinds of src/src/types/error.rs that name a Merkle failure.
MerkleErrorKinds == {"MerkleProof", "MerkleVerificationFailed"}

\* C5 (the claim as stated): every failure of verify on a non-empty tree (root
\* mismatch, a witness or the queried values run out or are left over) is
\* reported with the Merkle error kind.
C5_MerkleFailureIsMerkleKind ==
    (MerkleDone /\ MerkleNonEmptyTree /\ mk.run.result # "Ok") =>
        mk.run.result \in MerkleErrorKinds

(***************************************************************************)
(* Claims about FriVerifier, checked under SpecFri.                        *)
(***************************************************************************)
FriCommitReturned == fri.commit # "None"
FriDecommitReturned == fri.decommit # "None"
FriBoundsEmpty == fri.call.bounds = <<>>
FriBoundsAscendingPair ==
    \E i \in 1..(Len(fri.call.bounds) - 1) :
        fri.call.bounds[i] < fri.call.bounds[i + 1]
\* The channel operations performed since the state before the commit call.
FriCommitOps ==
    SubSeq(fri.channel.ops, Len(fri.before.ops) + 1, Len(fri.channel.ops))
FriInnerLayerCount == Len(fri.call.proof.inner_layers)

\* C8: decommit on a verifier returned by commit returns QueriesNotSampled if
\* sample_query_positions was never called on it, and never returns
\* QueriesNotSampled once sample_query_positions has been called.
C8_QueriesNotSampledIffNeverSampled ==
    FriDecommitReturned =>
        (fri.decommit = "FriQueriesNotSampled" <=> fri.n_sample_calls = 0)

\* C8 witness: decommit has returned on a verifier whose queries were sampled,
\* with a result other than QueriesNotSampled.
C8_Witness ==
    /\ FriDecommitReturned
    /\ fri.n_sample_calls > 0
    /\ fri.decommit # "FriQueriesNotSampled"

\* C9: commit called with an empty bound list, or with a bound followed by a
\* larger bound, returns InvalidStructure and leaves the channel (digest,
\* counters and the log of its operations) as it was before the call.
C9_BadBoundsRejectedChannelUntouched ==
    (FriCommitReturned /\ (FriBoundsEmpty \/ FriBoundsAscendingPair)) =>
        /\ fri.commit = "InvalidStructure"
        /\ fri.channel = fri.before

\* C9 witness: commit has returned for a list in which a bound is followed by
\* a larger one, with a proof that carries inner layers.
C9_Witness ==
    /\ FriCommitReturned
    /\ FriBoundsAscendingPair
    /\ FriInnerLayerCount > 0
    /\ fri.commit = "InvalidStructure"

\* C10: a successful commit with n inner layers performs exactly
\* mix_root(first commitment), draw_felt, then mix_root(commitment) and
\* draw_felt for each inner layer in proof order, then mix_felts(last layer
\* coefficients); it stores n+1 folding alphas, alpha k being the value of
\* the k-th draw.
C10_CommitTranscriptOrder ==
    (fri.commit = "Ok" /\ fri.n_sample_calls = 0) =>
        LET n == FriInnerLayerCount
            proof == fri.call.proof
            alphas == IF fri.verifier = NoVerifier THEN <<>>
                      ELSE fri.verifier[1].folding_alphas
        IN /\ Len(FriCommitOps) = 2 * n + 3
           /\ FriCommitOps[1] = <<"mix_root", proof.first_layer.commitment>>
           /\ \A k \in 1..n :
                 FriCommitOps[2 * k + 1] =
                     <<"mix_root", proof.inner_layers[k].commitment>>
           /\ \A k \in 1..(n + 1) : FriCommitOps[2 * k][1] = "draw_felt"
           /\ FriCommitOps[2 * n + 3] =
                 <<"mix_felts", proof.last_layer_poly.coeffs>>
           /\ fri.verifier # NoVerifier =>
                 /\ Len(alphas) = n + 1
                 /\ \A k \in 1..(n + 1) : alphas[k] = FriCommitOps[2 * k][2]

\* C10 witness: commit has succeeded on a proof with two inner layers and a
\* non-empty last layer polynomial; the verifier is still held.
C10_Witness ==
    /\ fri.commit = "Ok"
    /\ fri.n_sample_calls = 0
    /\ fri.verifier # NoVerifier
    /\ FriInnerLayerCount = 2
    /\ fri.call.proof.last_layer_poly.coeffs # <<>>


(***************************************************************************)
(* Claims about the commitment scheme verifier, checked under SpecPcs.     *)
(***************************************************************************)
PcsReturned == pcs.pc = "returned"
PcsSteps == pcs.run.steps
PcsStepNames == {PcsSteps[i].step : i \in DOMAIN PcsSteps}
\* The calls made on the channel during the returned call.
PcsOpsAdded ==
    SubSeq(pcs.channel.ops, Len(pcs.before.ops) + 1, Len(pcs.channel.ops))
PcsOpNamesAdded == [i \in DOMAIN PcsOpsAdded |-> PcsOpsAdded[i][1]]
\* The log sizes of the columns of the trees the caller committed.
PcsCallerColumnLogSizes ==
    UNION {Range(pcs.commitment_scheme.committed_trees[t].column_log_sizes) :
              t \in 1..MaxTrees}
\* The steps of a complete run of verify_values over n trees, in order.
PcsFullSteps(n) ==
    <<"FriVerifier::commit", "proof_of_work", "sample_query_positions",
      "structure">>
    \o [t \in 1..n |-> "MerkleVerifier::verify"]
    \o <<"samples", "fri_answers", "FriVerifier::decommit">>

\* C1: after commit(tree 0) and commit(tree 1), verify returns Ok for the
\* honest proof when some committed column has log size >= 1 (the proof
\* opens every tree at the sampled positions, its nonce passes the
\* proof-of-work check and its composition value is the evaluators' value).
C1_HonestProofAccepted ==
    (/\ PcsReturned
     /\ pcs.call.entry = "verify"
     /\ pcs.call.kind = "honest"
     /\ pcs.call.components # <<>>
     /\ Len(pcs.commitment_scheme.committed_trees) = MaxTrees + 1
     /\ \E log_size \in PcsCallerColumnLogSizes : log_size >= 1
     /\ pcs.commitment_scheme.config.fri_config.n_queries >= 1
     /\ pcs.run.nonce_zeros # <<>>
     /\ pcs.run.nonce_zeros[1] >= pcs.commitment_scheme.config.pow_bits)
    => pcs.run.result = "Ok"

\* C2: verify_values runs its steps in order and stops at the first one that
\* fails: every step before the last returned Ok, a failed step is the last
\* one and its error is the value returned, and Ok is returned only when
\* FriVerifier::commit, the proof-of-work check, MerkleVerifier::verify of
\* every committed tree, fri_answers and FriVerifier::decommit all ran and
\* returned Ok.
C2_NoPartialAcceptance ==
    (PcsReturned /\ pcs.run.invoked) =>
        LET full == PcsFullSteps(Len(pcs.commitment_scheme.committed_trees))
        IN /\ PcsSteps # <<>>
           /\ Len(PcsSteps) <= Len(full)
           /\ \A i \in DOMAIN PcsSteps :
                 /\ PcsSteps[i].step = full[i]
                 /\ PcsSteps[i].result # "Ok" =>
                        /\ i = Len(PcsSteps)
                        /\ pcs.run.result = PcsSteps[i].result
           /\ pcs.run.result = "Ok" =>
                 /\ Len(PcsSteps) = Len(full)
                 /\ \A i \in DOMAIN PcsSteps : PcsSteps[i].result = "Ok"

\* A run of verify_values in which MerkleVerifier::verify succeeded for one
\* tree and failed for a later one, after which nothing else ran.
C2_Witness ==
    /\ PcsReturned /\ pcs.run.invoked
    /\ \E i, j \in DOMAIN PcsSteps :
          /\ i < j /\ j = Len(PcsSteps)
          /\ PcsSteps[i].step = "MerkleVerifier::verify"
          /\ PcsSteps[i].result = "Ok"
          /\ PcsSteps[j].step = "MerkleVerifier::verify"
          /\ PcsSteps[j].result # "Ok"
          /\ pcs.run.result = PcsSteps[j].result

\* C6: once FriVerifier::commit succeeded the nonce is mixed into the
\* channel; if the channel then has fewer trailing zeros than pow_bits the
\* result is ProofOfWork, the nonce is the last thing the call did on the
\* channel, no position is sampled and no Merkle, fri_answers or FRI
\* decommitment step runs; positions are sampled only when the trailing
\* zeros right after the nonce was mixed were at least pow_bits.
C6_ProofOfWorkGate ==
    (/\ PcsReturned /\ pcs.run.invoked
     /\ PcsSteps[1].result = "Ok") =>
        LET pow_bits == pcs.commitment_scheme.config.pow_bits
        IN /\ pcs.run.nonce_zeros # <<>>
           /\ \E i \in DOMAIN PcsOpsAdded :
                 PcsOpsAdded[i] = <<"mix_u64", pcs.call.proof.proof_of_work>>
           /\ pcs.run.nonce_zeros[1] < pow_bits =>
                 /\ pcs.run.result = "ProofOfWork"
                 /\ PcsStepNames = {"FriVerifier::commit", "proof_of_work"}
                 /\ pcs.run.positions = EmptyMap
                 /\ PcsOpsAdded[Len(PcsOpsAdded)][1] = "mix_u64"
           /\ "sample_query_positions" \in PcsStepNames =>
                 pcs.run.nonce_zeros[1] >= pow_bits

\* A run of verify_values rejected by the proof-of-work check.
C6_Witness ==
    /\ PcsReturned /\ pcs.run.invoked
    /\ PcsSteps[1].result = "Ok"
    /\ pcs.run.nonce_zeros # <<>>
    /\ pcs.run.nonce_zeros[1] < pcs.commitment_scheme.config.pow_bits
    /\ pcs.run.result = "ProofOfWork"

\* C7: when the composition value extracted from the last block of the
\* sampled values differs from the value the evaluators give, verify returns
\* OodsNotMatching without calling verify_values: no step of it runs and the
\* channel has only seen the two draws and the composition root of verify.
C7_OodsMismatchRejectedBeforeVerifyValues ==
    (/\ PcsReturned
     /\ pcs.call.entry = "verify"
     /\ pcs.run.oods # <<>>
     /\ pcs.run.oods[1] # pcs.run.oods[2]) =>
        /\ pcs.run.result = "OodsNotMatching"
        /\ ~pcs.run.invoked
        /\ PcsSteps = <<>>
        /\ PcsOpNamesAdded = <<"draw_felt", "mix_root", "draw_felt">>

\* A call of verify with a proof whose composition value is not the
\* evaluators' value.
C7_Witness ==
    /\ PcsReturned
    /\ pcs.call.entry = "verify"
    /\ pcs.run.oods # <<>>
    /\ pcs.run.oods[1] # pcs.run.oods[2]
    /\ pcs.run.result = "OodsNotMatching"

(***************************************************************************)
(* Claims about the FRI decommitment, checked under SpecFri.               *)
(***************************************************************************)
\* The positions of the aligned blocks of 2^fold_step positions that hold a
\* query, and those of them that are not queried.
FriBlockPositions(queries, fold_step) ==
    {p \in 0..(Pow2(queries.log_domain_size + fold_step) - 1) :
        \E k \in 1..Len(queries.positions) :
            p \div Pow2(fold_step) = queries.positions[k] \div Pow2(fold_step)}
FriNonQueriedPositions(queries, fold_step) ==
    FriBlockPositions(queries, fold_step) \ Range(queries.positions)

\* The decommit call made: the queries it took from the verifier, the
\* evaluations it was given and the witness of the first layer of the proof.
FriDecommitQueries == fri.decommit_call.queries[1]
FriDecommitEvaluations == fri.decommit_call.fri_input_evaluations
FriFirstLayerWitness == fri.call.proof.first_layer.fri_witness
\* The first layer's witness is shorter than the non-queried positions of the
\* blocks of the queries, and there is an evaluation for every query.
FriFirstLayerWitnessTruncated ==
    /\ FriDecommitReturned
    /\ fri.decommit_call.queries # <<>>
    /\ Len(FriFirstLayerWitness) <
           Cardinality(FriNonQueriedPositions(FriDecommitQueries,
                                              CIRCLE_TO_LINE_FOLD_STEP))
    /\ Len(FriDecommitEvaluations) >= Len(FriDecommitQueries.positions)

\* C11: when the witness of a layer has fewer elements than there are
\* non-queried positions in the aligned blocks of the queries, and there is
\* an evaluation for every query, compute_decommitment_positions_and_rebuild_evals
\* fails with FriInsufficientWitness, and so does the decommit that calls it.
C11_TruncatedWitnessRejected ==
    FriFirstLayerWitnessTruncated =>
        /\ compute_decommitment_positions_and_rebuild_evals(
               FriDecommitQueries, FriDecommitEvaluations, FriFirstLayerWitness,
               CIRCLE_TO_LINE_FOLD_STEP).result = "FriInsufficientWitness"
        /\ fri.decommit = "FriInsufficientWitness"

\* C11 witness: decommit has returned for two queries in two different
\* blocks, two evaluations and a witness of one element, which is consumed
\* before the witness runs out.
C11_Witness ==
    /\ FriFirstLayerWitnessTruncated
    /\ Len(FriDecommitQueries.positions) = 2
    /\ Cardinality(FriBlockPositions(FriDecommitQueries,
                                     CIRCLE_TO_LINE_FOLD_STEP)) = 4
    /\ Len(FriFirstLayerWitness) = 1
    /\ fri.decommit = "FriInsufficientWitness"

\* The last layer polynomial of the proof has more than
\* 2^log_last_layer_degree_bound coefficients and its leading one is not zero.
FriLastLayerOverDegree ==
    LET coeffs == fri.call.proof.last_layer_poly.coeffs
    IN /\ Len(coeffs) > Pow2(fri.call.config.log_last_layer_degree_bound)
       /\ coeffs[Len(coeffs)] # QM31_zero
\* commit was given a non-empty list of bounds sorted descending and returned.
FriBoundsAccepted ==
    /\ FriCommitReturned
    /\ ~FriBoundsEmpty
    /\ ~FriBoundsAscendingPair
    /\ fri.commit # "panic"
FriLastLayerErrorKinds ==
    {"FriLastLayerDegreeInvalid", "FriLastLayerEvaluationsInvalid"}

\* C12: for a proof whose last layer polynomial exceeds the degree bound,
\* commit followed by sample_query_positions and decommit never returns Ok:
\* commit fails with LastLayerDegreeInvalid, or decommit fails with
\* LastLayerDegreeInvalid or LastLayerEvaluationsInvalid.
C12_OverDegreeLastLayerRejected ==
    (FriBoundsAccepted /\ FriLastLayerOverDegree) =>
        /\ fri.commit \in {"Ok", "FriLastLayerDegreeInvalid"}
        /\ (FriDecommitReturned /\ fri.n_sample_calls > 0
                /\ fri.decommit # "panic") =>
               fri.decommit \in FriLastLayerErrorKinds

(***************************************************************************)
(* The functions of the library that a caller applies on their own.  Each  *)
(* action is one call (for the channel: one call of a script) with         *)
(* arguments drawn from small sets; `lib` holds the call and what it       *)
(* returned.                                                               *)
(***************************************************************************)
\* Largest log_last_layer_degree_bound of a configuration.
MaxLibDegreeBound == 1
\* Largest number of final queries handed to decommit_last_layer.
MaxLibQueries == 2

LibConfigs ==
    [log_blowup_factor : 0..1,
     log_last_layer_degree_bound : 0..MaxLibDegreeBound,
     n_queries : {MaxLibQueries}]
\* Last layer polynomials: no coefficient, a constant, two coefficients with
\* a leading one that is not zero, two with a leading one that is zero.
LibPolys ==
    {<<>>, <<<<2, 0, 0, 0>>>>, <<<<2, 0, 0, 0>>, <<0, 1, 0, 0>>>>,
     <<<<1, 2, 3, 4>>, <<0, 0, 0, 0>>>>}
\* A verifier as commit leaves it, reduced to what decommit_last_layer reads.
LibVerifier(config, coeffs) ==
    [config |-> config, layer_commitments |-> <<>>, folding_alphas |-> <<>>,
     first_layer_proof |-> <<>>, inner_layers_proof |-> <<>>,
     last_layer_poly |-> <<[coeffs |-> coeffs]>>, queries |-> <<>>,
     column_commitment_domains |-> <<>>, column_bounds |-> <<>>]

RECURSIVE PolyValue(_, _, _)
\* The value at x of the polynomial with the given coefficients, low to high
\* degree: the sum of coeffs[i] * x^(i - 1) from the i-th coefficient on.
PolyValue(coeffs, x, i) ==
    IF i > Len(coeffs) THEN QM31_zero
    ELSE QM31_add(QM31_mul(coeffs[i], QM31_pow(x, i - 1)),
                  PolyValue(coeffs, x, i + 1))

\* The point of the last layer domain that belongs to a query position.
LastLayerPoint(domain, query_index) ==
    QM31_from_m31(LineDomain_at(domain,
                                bit_reverse_index(query_index, domain.log_size)))

\* Folded evaluations handed to decommit_last_layer: the values of the
\* polynomial on the domain and one more value.
LibEvalChoices(coeffs, domain) ==
    {PolyValue(coeffs, LastLayerPoint(domain, q), 1) :
        q \in 0..(Pow2(domain.log_size) - 1)} \cup {<<6, 6, 6, 6>>}

\* self.decommit_last_layer(queries, final_folded_evals)
LibDecommitLastLayerCall ==
    /\ lib.op = "idle"
    /\ \E config \in LibConfigs, coeffs \in LibPolys :
          LET self == LibVerifier(config, coeffs)
              log_size == config.log_last_layer_degree_bound
                              + config.log_blowup_factor
              domain == LineDomain_new(Coset_new(0, log_size))
          IN \E S \in SUBSET (0..(Pow2(log_size) - 1)) :
                /\ Cardinality(S) <= MaxLibQueries
                /\ \E evals \in [1..Cardinality(S) ->
                                    LibEvalChoices(coeffs, domain)] :
                      LET queries == [log_domain_size |-> log_size,
                                      positions |-> SortedSeq(S)]
                      IN lib' = [op |-> "decommit_last_layer",
                                 self |-> self,
                                 queries |-> queries,
                                 final_folded_evals |-> evals,
                                 returned |-> decommit_last_layer(self, queries,
                                                                  evals)]
    /\ UNCHANGED <<mk, fri, pcs>>

\* The points of the circle x^2 + y^2 = 1 over the base field.
CirclePoints == {p \in [x : M31, y : M31] :
                    M31_add(M31_mul(p.x, p.x), M31_mul(p.y, p.y)) = 1}

\* p + (-p)
LibPointAddNegCall ==
    /\ lib.op = "idle"
    /\ \E p \in CirclePoints :
          lib' = [op |-> "point_add_neg", p |-> p,
                  returned |-> CirclePoint_add(p, CirclePoint_neg(p))]
    /\ UNCHANGED <<mk, fri, pcs>>

\* x.inverse() for a non-zero x of QM31.
LibInverseCall ==
    /\ lib.op = "idle"
    /\ \E x \in QM31 \ {QM31_zero} :
          lib' = [op |-> "inverse", x |-> x, returned |-> QM31_inverse(x)]
    /\ UNCHANGED <<mk, fri, pcs>>

\* Largest length of a column handed to batch_inverse.
MaxBatch == 2
LibFieldElements ==
    {<<1, 0, 0, 0>>, <<2, 0, 0, 0>>, <<0, 1, 0, 0>>, <<1, 2, 3, 4>>}

\* FieldExpOps::batch_inverse(column) for a column of non-zero elements.
LibBatchInverseCall ==
    /\ lib.op = "idle"
    /\ \E n \in 0..MaxBatch :
          \E column \in [1..n -> LibFieldElements] :
              lib' = [op |-> "batch_inverse", column |-> column,
                      returned |-> batch_inverse(column)]
    /\ UNCHANGED <<mk, fri, pcs>>

\* bit_reverse_index(i, log_size), and bit_reverse_index of what it returned.
LibBitReverseCall ==
    /\ lib.op = "idle"
    /\ \E log_size \in 0..(UsizeBits - 1) :
          \E i \in 0..(Pow2(log_size) - 1) :
              LET returned == bit_reverse_index(i, log_size)
              IN lib' = [op |-> "bit_reverse_index", i |-> i,
                         log_size |-> log_size, returned |-> returned,
                         again |-> bit_reverse_index(returned, log_size)]
    /\ UNCHANGED <<mk, fri, pcs>>

\* Largest log domain size of the queries handed to Queries::fold.
MaxFoldLogSize == 3
\* Largest number of positions of the queries handed to Queries::fold.
MaxFoldPositions == 4

\* queries.fold(n_folds) for strictly increasing positions of the domain.
LibFoldCall ==
    /\ lib.op = "idle"
    /\ \E log_domain_size \in 0..MaxFoldLogSize :
          \E S \in {T \in SUBSET (0..(Pow2(log_domain_size) - 1)) :
                       Cardinality(T) <= MaxFoldPositions},
             n_folds \in 0..log_domain_size :
              LET queries == [log_domain_size |-> log_domain_size,
                              positions |-> SortedSeq(S)]
              IN lib' = [op |-> "fold", queries |-> queries,
                         n_folds |-> n_folds,
                         returned |-> Queries_fold(queries, n_folds)]
    /\ UNCHANGED <<mk, fri, pcs>>

\* Channels handed to sample_query_positions: the default one and one that
\* has mixed a root.
LibSampleChannels ==
    {Blake2sChannel_default, mix_root(Blake2sChannel_default, <<11>>)}

\* verifier.sample_query_positions(channel, column_log_sizes)
LibSampleCall ==
    /\ lib.op = "idle"
    /\ \E n_queries \in 0..MaxLibQueries, channel \in LibSampleChannels,
          column_log_sizes \in SUBSET (0..MaxFoldLogSize) :
          LET self == LibVerifier([log_blowup_factor |-> 0,
                                   log_last_layer_degree_bound |-> 0,
                                   n_queries |-> n_queries], <<>>)
          IN lib' = [op |-> "sample_query_positions",
                     column_log_sizes |-> column_log_sizes,
                     returned |-> sample_query_positions(self, channel,
                                                         column_log_sizes)]
    /\ UNCHANGED <<mk, fri, pcs>>

\* Largest number of calls of a script run on a pair of channels.
MaxScript == 3

LibDigests == {Blake2sChannel_default.digest, Blake2sHasher_hash(<<1>>)}
LibNonces == {1, WordModulus + 2}
LibFelts == {<<>>, <<<<1, 2, 3, 4>>>>}
LibRoots == {<<11>>, <<12>>}
\* What two runs are compared on: the digest and the counters of a channel.
ChannelState(channel) ==
    [digest |-> channel.digest, channel_time |-> channel.channel_time]

\* Two channels are created with the same digest and counters: one in a
\* program built for a little-endian target, one in a program built for
\* either byte order.
LibChannelNew ==
    /\ lib.op = "idle"
    /\ \E digest \in LibDigests, target_endian \in {"little", "big"} :
          LET a == [Blake2sChannel_default EXCEPT !.digest = digest]
              b == [a EXCEPT !.target_endian = target_endian]
          IN lib' = [op |-> "channel", a |-> a, b |-> b, n_calls |-> 0,
                     call |-> <<"new", digest>>, before |-> a,
                     returned |-> [a |-> <<>>, b |-> <<>>]]
    /\ UNCHANGED <<mk, fri, pcs>>

\* The state after one more call of the script, made on both channels.
LibChannelStep(call, a, b, returned_a, returned_b) ==
    [lib EXCEPT !.a = a, !.b = b, !.n_calls = @ + 1, !.call = call,
                !.before = lib.a,
                !.returned = [a |-> returned_a, b |-> returned_b]]
LibScriptRuns == lib.op = "channel" /\ lib.n_calls < MaxScript

\* channel.mix_u64(nonce)
LibMixU64Call ==
    /\ LibScriptRuns
    /\ \E nonce \in LibNonces :
          lib' = LibChannelStep(<<"mix_u64", nonce>>, mix_u64(lib.a, nonce),
                                mix_u64(lib.b, nonce), <<>>, <<>>)
    /\ UNCHANGED <<mk, fri, pcs>>

\* channel.mix_felts(felts)
LibMixFeltsCall ==
    /\ LibScriptRuns
    /\ \E felts \in LibFelts :
          lib' = LibChannelStep(<<"mix_felts", felts>>, mix_felts(lib.a, felts),
                                mix_felts(lib.b, felts), <<>>, <<>>)
    /\ UNCHANGED <<mk, fri, pcs>>

\* MC::mix_root(channel, root)
LibMixRootCall ==
    /\ LibScriptRuns
    /\ \E root \in LibRoots :
          lib' = LibChannelStep(<<"mix_root", root>>, mix_root(lib.a, root),
                                mix_root(lib.b, root), <<>>, <<>>)
    /\ UNCHANGED <<mk, fri, pcs>>

\* channel.draw_random_bytes(): the bytes returned are the new digest.
LibDrawRandomBytesCall ==
    /\ LibScriptRuns
    /\ LET a == draw_random_bytes(lib.a)
           b == draw_random_bytes(lib.b)
       IN lib' = LibChannelStep(<<"draw_random_bytes">>, a, b,
                                a.digest, b.digest)
    /\ UNCHANGED <<mk, fri, pcs>>

\* channel.draw_felt()
LibDrawFeltCall ==
    /\ LibScriptRuns
    /\ LET a == draw_felt(lib.a)
           b == draw_felt(lib.b)
       IN lib' = LibChannelStep(<<"draw_felt">>, a.channel, b.channel,
                                a.value, b.value)
    /\ UNCHANGED <<mk, fri, pcs>>

\* The verifier and the channel handed to verify: one tree of one column
\* has been committed, and the channel has mixed its root after the seed.
LibVerifySeeds == {<<>>, <<5>>}
LibCommitted(seed) ==
    CommitmentSchemeVerifier_commit(
        CommitmentSchemeVerifier_new(
            [pow_bits |-> 0,
             fri_config |-> [log_blowup_factor |-> 0,
                             log_last_layer_degree_bound |-> 0,
                             n_queries |-> 1]]),
        TreeRoot(<<0>>), <<0>>,
        IF seed = <<>> THEN Blake2sChannel_default
        ELSE mix_root(Blake2sChannel_default, seed))
\* The value the component's evaluators give for the composition polynomial.
LibComposition(committed) ==
    eval_composition_polynomial_at_point(
        <<PcsComponent(committed.self, 0)>>, PcsPoint, <<>>,
        draw_felt(committed.channel).value)
\* The last block of sampled_values: four columns of one value, or a block
\* of another number of columns, or one with a column of no or two values.
LibCompositionMasks(composition) ==
    LET values == {QM31_zero, <<1, 2, 3, 4>>, composition}
        shaped == {[i \in 1..SECURE_EXTENSION_DEGREE |-> <<f[i]>>] :
                      f \in [1..SECURE_EXTENSION_DEGREE -> values]}
        singles(n) == [i \in 1..n |-> <<composition>>]
    IN shaped
       \cup {singles(n) : n \in {0, 1, 3, 5}}
       \cup {[singles(SECURE_EXTENSION_DEGREE) EXCEPT ![k] = column] :
                k \in 1..SECURE_EXTENSION_DEGREE,
                column \in {<<>>, <<composition, composition>>}}
\* The sampled values of the trees before the composition tree.
LibSampledPrefixes == {<<>>, <<<<<<PcsSampledValue>>>>>>}
LibSampledValues(composition) ==
    {<<>>} \cup {prefix \o <<mask>> :
                    prefix \in LibSampledPrefixes,
                    mask \in LibCompositionMasks(composition)}

\* verify(components, channel, commitment_scheme, proof) for proofs whose
\* sampled_values have every shape above.
LibVerifyCall ==
    /\ lib.op = "idle"
    /\ \E seed \in LibVerifySeeds :
          LET committed == LibCommitted(seed)
              components == <<PcsComponent(committed.self, 0)>>
              base == PcsProofBase(<<<<0>>, <<0, 0, 0, 0>>>>, <<>>, <<>>,
                                   "honest", 0,
                                   CHOOSE p \in PcsFriProofs : TRUE)
          IN \E sampled_values \in LibSampledValues(LibComposition(committed)) :
             \E proof \in {[base EXCEPT !.sampled_values = sampled_values]} :
             \E returned \in {verify(components, committed.channel,
                                     committed.self, proof)} :
                lib' = [op |-> "verify", proof |-> proof,
                        returned |-> [result |-> returned.result,
                                      msg |-> returned.msg,
                                      oods |-> returned.oods,
                                      invoked |-> returned.invoked]]
    /\ UNCHANGED <<mk, fri, pcs>>

\* The log degree bounds of the columns of the trees committed before
\* verify_values is called.
LibTreeBounds == {<<>>, <<0>>, <<1>>, <<0, 1>>, <<1, 0>>, <<1, 1>>}
RECURSIVE LibCommitTrees(_, _)
\* The verifier and the channel after a commit for each list of bounds.
LibCommitTrees(committed, bounds_per_tree) ==
    IF bounds_per_tree = <<>> THEN committed
    ELSE LibCommitTrees(
             CommitmentSchemeVerifier_commit(
                 committed.self,
                 TreeRoot([i \in 1..Len(Head(bounds_per_tree)) |->
                     saturating_add(Head(bounds_per_tree)[i],
                                    committed.self.config.fri_config
                                        .log_blowup_factor)]),
                 Head(bounds_per_tree), committed.channel),
             Tail(bounds_per_tree))

\* verify_values up to its call of FriVerifier::commit, for verifiers with
\* up to MaxTrees committed trees.
LibVerifyValuesCommitCall ==
    /\ lib.op = "idle"
    /\ \E n \in 0..MaxTrees, log_blowup_factor \in 0..1 :
       \E bounds_per_tree \in [1..n -> LibTreeBounds] :
          LET config == [pow_bits |-> 0,
                         fri_config |-> [log_blowup_factor |-> log_blowup_factor,
                                         log_last_layer_degree_bound |-> 0,
                                         n_queries |-> 1]]
              committed == LibCommitTrees(
                               [self |-> CommitmentSchemeVerifier_new(config),
                                channel |-> Blake2sChannel_default],
                               bounds_per_tree)
              trees == [t \in 1..n |->
                           committed.self.committed_trees[t].column_log_sizes]
              points == [t \in 1..n |-> [c \in 1..Len(trees[t]) |-> <<PcsPoint>>]]
              proof == PcsProofBase(trees, points, <<>>, "honest", 0,
                                    CHOOSE p \in PcsFriProofs : TRUE)
          IN \E frame \in {verify_values_commit(committed.self, points, proof,
                                                committed.channel)} :
                lib' = [op |-> "verify_values_commit",
                        self |-> committed.self,
                        fri_verifier_bounds |-> frame.fri_verifier_bounds,
                        returned |-> frame.steps]
    /\ UNCHANGED <<mk, fri, pcs>>

\* Largest log domain size of the queries handed to fri_answers.
MaxAnswerLogSize == 1

\* The fri_answers stage of verify_values (lines 170-193) for verifiers with
\* 1 to MaxTrees committed trees, one sample per column, sampled query
\* positions of the largest column domain folded onto each column log size
\* and, for each tree, one queried value per column and query position of
\* its log size.
LibFriAnswersCall ==
    /\ lib.op = "idle"
    /\ \E n \in 1..MaxTrees :
       \E bounds_per_tree \in [1..n -> LibTreeBounds],
          S \in SUBSET (0..(Pow2(MaxAnswerLogSize) - 1)) :
          LET config == [pow_bits |-> 0,
                         fri_config |-> [log_blowup_factor |-> 0,
                                         log_last_layer_degree_bound |-> 0,
                                         n_queries |-> Cardinality(S)]]
              self == LibCommitTrees(
                          [self |-> CommitmentSchemeVerifier_new(config),
                           channel |-> Blake2sChannel_default],
                          bounds_per_tree).self
              trees == [t \in 1..n |-> self.committed_trees[t].column_log_sizes]
              positions ==
                  get_query_positions_by_log_size(
                      [log_domain_size |-> MaxAnswerLogSize,
                       positions |-> SortedSeq(S)],
                      UNION {Range(trees[t]) : t \in 1..n})
              queried_values ==
                  [t \in 1..n |->
                      Flatten([c \in 1..Len(trees[t]) |->
                          [q \in 1..Len(positions[trees[t][c]]) |-> 1 + ((c + q) % 3)]])]
              frame == [self |-> self,
                        proof |-> [queried_values |-> queried_values],
                        samples |-> [t \in 1..n |-> [c \in 1..Len(trees[t]) |->
                                        <<[point |-> PcsPoint,
                                           value |-> PcsSampledValue]>>]],
                        random_coeff |-> <<2, 1, 0, 0>>,
                        positions |-> positions,
                        result |-> "Running", msg |-> "", steps |-> <<>>,
                        answers |-> <<>>]
          IN \E returned \in {verify_values_fri_answers(frame)} :
                lib' = [op |-> "fri_answers", self |-> self,
                        positions |-> positions,
                        queried_values |-> queried_values,
                        returned |-> [result |-> returned.result,
                                      msg |-> returned.msg,
                                      answers |-> returned.answers]]
    /\ UNCHANGED <<mk, fri, pcs>>

\* CirclePoint::double: (x + iy)^2 = (x^2 - y^2) + i(2xy).
CirclePoint_double(p) ==
    [x |-> M31_sub(M31_mul(p.x, p.x), M31_mul(p.y, p.y)),
     y |-> M31_add(M31_mul(p.x, p.y), M31_mul(p.x, p.y))]

\* Coset::new(initial_index, log_size).double() for log_size >= 1.
LibCosetDoubleCall ==
    /\ lib.op = "idle"
    /\ \E log_size \in 1..M31_CIRCLE_LOG_ORDER,
          initial_index \in 0..(Pow2(M31_CIRCLE_LOG_ORDER) - 1) :
          LET coset == Coset_new(initial_index, log_size)
          IN lib' = [op |-> "Coset::double", coset |-> coset,
                     returned |-> Coset_double(coset),
                     line |-> LineDomain_double(LineDomain_new(coset))]
    /\ UNCHANGED <<mk, fri, pcs>>

\* Evaluations of a bundle of a sparse evaluation.
LibSubsetEvals == {<<<<1, 0, 0, 0>>, <<3, 0, 0, 0>>>>, <<<<1, 2, 3, 4>>, <<0, 1, 0, 0>>>>}
LibFoldAlphas == {<<1, 0, 0, 0>>, <<2, 1, 0, 0>>}

\* SparseEvaluation::new(subset_evals, subset_domain_initial_indexes)
\*     .fold_line(fold_alpha, source_domain)
\* for a sparse evaluation of one or two bundles on a line domain.
LibFoldLineCall ==
    /\ lib.op = "idle"
    /\ \E log_size \in FOLD_STEP..(M31_CIRCLE_LOG_ORDER - 1),
          initial_index \in 1..(Pow2(M31_CIRCLE_LOG_ORDER - 1) - 1),
          n \in 1..2, fold_alpha \in LibFoldAlphas :
       \E subset_evals \in [1..n -> LibSubsetEvals],
          indexes \in [1..n -> 0..(Pow2(log_size) - 1)] :
          LET source_domain == LineDomain_new(Coset_new(initial_index, log_size))
              self == [subset_evals |-> subset_evals,
                       subset_domain_initial_indexes |-> indexes]
              panics == SparseEvaluation_fold_line_panics(self, source_domain)
          IN /\ \A k \in 1..(n - 1) : indexes[k] < indexes[k + 1]
             /\ lib' = [op |-> "fold_line", self |-> self,
                        fold_alpha |-> fold_alpha,
                        source_domain |-> source_domain,
                        x |-> [k \in 1..n |->
                                  FoldSubsetPoint(source_domain, indexes[k])],
                        result |-> IF panics THEN "panic" ELSE "Ok",
                        returned |-> IF panics THEN <<>>
                                     ELSE SparseEvaluation_fold_line(
                                              self, fold_alpha, source_domain)]
    /\ UNCHANGED <<mk, fri, pcs>>

\* Largest number of columns of the row handed to accumulate_row_quotients.
MaxRowColumns == 2
\* Out-of-domain points and sampled values of the columns.
LibSamplePoints ==
    {PcsPoint, [x |-> <<2, 0, 1, 1>>, y |-> <<1, 1, 0, 2>>]}
LibSamples ==
    [point : LibSamplePoints, value : {PcsSampledValue, <<1, 2, 3, 4>>}]

\* accumulate_row_quotients(sample_batches, queried_values_at_row,
\*                          quotient_constants, domain_point)
\* for the batches and constants of up to MaxRowColumns columns with one
\* sample each.
LibAccumulateCall ==
    /\ lib.op = "idle"
    /\ \E n \in 1..MaxRowColumns, domain_point \in CirclePoints :
       \E samples \in [1..n -> LibSamples],
          queried_values_at_row \in [1..n -> {0, 1, 3}] :
          LET sample_batches ==
                  ColumnSampleBatch_new_vec([c \in 1..n |-> <<samples[c]>>])
              random_coeff == <<2, 1, 0, 0>>
              constants == quotient_constants(sample_batches, random_coeff)
              returned == accumulate_row_quotients(
                              sample_batches, queried_values_at_row, constants,
                              domain_point)
          IN lib' = [op |-> "accumulate_row_quotients",
                     sample_batches |-> sample_batches,
                     queried_values_at_row |-> queried_values_at_row,
                     quotient_constants |-> constants,
                     domain_point |-> domain_point,
                     result |-> returned.result,
                     returned |-> returned.value]
    /\ UNCHANGED <<mk, fri, pcs>>

MaxRebuildLogSize == 3
MaxRebuildQueries == 3

\* The k-th query evaluation and the k-th witness evaluation handed to the
\* reconstruction: all distinct, so that the order of consumption shows.
LibQueryEval(k) == <<1, k % P, 0, 0>>
LibWitnessEval(k) == <<2, k % P, k \div P, 0>>

\* compute_decommitment_positions_and_rebuild_evals(queries, query_evals,
\* witness_evals, fold_step) for strictly increasing positions, with one
\* evaluation too few, the exact number, or one too many on either side.
LibRebuildCall ==
    /\ lib.op = "idle"
    /\ \E log_domain_size \in 0..MaxRebuildLogSize :
          \E S \in {T \in SUBSET (0..(Pow2(log_domain_size) - 1)) :
                       Cardinality(T) <= MaxRebuildQueries},
             fold_step \in 0..log_domain_size,
             query_delta \in {-1, 0, 1}, witness_delta \in {-1, 0, 1} :
              LET queries == [log_domain_size |-> log_domain_size,
                              positions |-> SortedSeq(S)]
                  n_blocks == Cardinality({q \div Pow2(fold_step) : q \in S})
                  n_witness == n_blocks * Pow2(fold_step) - Cardinality(S)
                  query_evals ==
                      [k \in 1..(Cardinality(S) + query_delta) |-> LibQueryEval(k)]
                  witness_evals ==
                      [k \in 1..(n_witness + witness_delta) |-> LibWitnessEval(k)]
              IN /\ Cardinality(S) + query_delta >= 0
                 /\ n_witness + witness_delta >= 0
                 /\ lib' = [op |-> "compute_decommitment_positions_and_rebuild_evals",
                            queries |-> queries,
                            query_evals |-> query_evals,
                            witness_evals |-> witness_evals,
                            fold_step |-> fold_step,
                            returned |->
                                compute_decommitment_positions_and_rebuild_evals(
                                    queries, query_evals, witness_evals, fold_step)]
    /\ UNCHANGED <<mk, fri, pcs>>

MaxCommitCalls == 3

\* The arguments of one commit call: a root and the log degree bounds of the
\* tree's columns, among them bounds at the top of the u32 range.
LibCommitArgs ==
    {[commitment |-> <<11>>, log_degree_bounds |-> <<>>],
     [commitment |-> <<12>>, log_degree_bounds |-> <<0, 1>>],
     [commitment |-> <<11>>, log_degree_bounds |-> <<2, 0, 2>>],
     [commitment |-> <<13>>, log_degree_bounds |-> <<1, U32Max>>]}

RECURSIVE LibCommitHistory(_, _)
\* The verifier and the channel before the first call and after each call.
LibCommitHistory(history, calls) ==
    IF calls = <<>> THEN history
    ELSE LibCommitHistory(
             Append(history,
                    CommitmentSchemeVerifier_commit(
                        history[Len(history)].self, Head(calls).commitment,
                        Head(calls).log_degree_bounds,
                        history[Len(history)].channel)),
             Tail(calls))

\* A sequence of commitment_scheme.commit(commitment, log_degree_bounds,
\* channel) calls on a new verifier.
LibCommitSequenceCall ==
    /\ lib.op = "idle"
    /\ \E config \in PcsConfigs, channel \in LibSampleChannels,
          n \in 0..MaxCommitCalls :
          \E calls \in [1..n -> LibCommitArgs] :
              lib' = [op |-> "commit",
                      calls |-> calls,
                      returned |->
                          LibCommitHistory(
                              <<[self |-> CommitmentSchemeVerifier_new(config),
                                 channel |-> channel]>>,
                              calls)]
    /\ UNCHANGED <<mk, fri, pcs>>

MaxInnerBound == 2

\* A layer proof with more witness evaluations than any layer modelled needs.
LibLayerProof(commitment) ==
    [fri_witness |-> [k \in 1..4 |-> LibWitnessEval(k)],
     decommitment |-> [hash_witness |-> <<>>, column_witness |-> <<>>],
     commitment |-> commitment]

\* self.decommit_inner_layers(queries.clone(), first_layer_evals), as
\* decommit_on_queries calls it: self is the verifier that commit returned
\* for one bound, the queries are those sampled on a domain of log size
\* bound + log_blowup_factor or one less, and first_layer_evals is the
\* sparse evaluation that decommit_first_layer rebuilds for them.
LibDecommitInnerLayersCall ==
    /\ lib.op = "idle"
    /\ \E config \in LibConfigs, bound \in 0..MaxInnerBound,
          n_inner \in 0..MaxInnerLayers, sampled_below \in 0..1 :
          LET proof == [first_layer |-> LibLayerProof(<<11>>),
                        inner_layers |-> [i \in 1..n_inner |->
                                             LibLayerProof(<<11 + i>>)],
                        last_layer_poly |-> [coeffs |-> <<>>]]
              committed == FriVerifier_commit(Blake2sChannel_default, config,
                                              proof, <<bound>>)
              log_domain_size == bound + config.log_blowup_factor - sampled_below
          IN /\ committed.result = "Ok"
             /\ log_domain_size >= 0
             /\ \E S \in SUBSET (0..(Pow2(log_domain_size) - 1)) :
                   /\ Cardinality(S) \in 1..MaxLibQueries
                   /\ LET queries == [log_domain_size |-> log_domain_size,
                                      positions |-> SortedSeq(S)]
                          first == compute_decommitment_positions_and_rebuild_evals(
                                       queries,
                                       [k \in 1..Cardinality(S) |-> LibQueryEval(k)],
                                       proof.first_layer.fri_witness,
                                       CIRCLE_TO_LINE_FOLD_STEP)
                      IN /\ first.result = "Ok"
                         /\ lib' = [op |-> "decommit_inner_layers",
                                    self |-> committed.verifier,
                                    layer_queries |-> queries,
                                    first_layer_evals |-> <<first.sparse_evaluation>>,
                                    returned |->
                                        decommit_inner_layers(
                                            committed.verifier, queries,
                                            <<first.sparse_evaluation>>)]
    /\ UNCHANGED <<mk, fri, pcs>>

LibInit ==
    /\ mk = [args |-> NoArguments, run |-> MerkleIdle]
    /\ fri = FriIdle
    /\ pcs = PcsIdle
    /\ lib = LibIdle

LibNext ==
    \/ LibDecommitLastLayerCall
    \/ LibPointAddNegCall
    \/ LibInverseCall
    \/ LibBatchInverseCall
    \/ LibBitReverseCall
    \/ LibFoldCall
    \/ LibSampleCall
    \/ LibChannelNew
    \/ LibMixU64Call
    \/ LibMixFeltsCall
    \/ LibMixRootCall
    \/ LibDrawRandomBytesCall
    \/ LibDrawFeltCall
    \/ LibVerifyCall
    \/ LibVerifyValuesCommitCall
    \/ LibFriAnswersCall
    \/ LibCosetDoubleCall
    \/ LibFoldLineCall
    \/ LibAccumulateCall
    \/ LibRebuildCall
    \/ LibCommitSequenceCall
    \/ LibDecommitInnerLayersCall

SpecLib == LibInit /\ [][LibNext]_vars

(***************************************************************************)
(* Claims about the functions of the library, checked under SpecLib.       *)
(***************************************************************************)
LibLastLayerLogSize ==
    lib.self.config.log_last_layer_degree_bound
        + lib.self.config.log_blowup_factor
\* decommit_last_layer was given queries on the last layer domain and one
\* evaluation for each query.
LibLastLayerCallWellFormed ==
    /\ lib.op = "decommit_last_layer"
    /\ ~Coset_new_panics(LibLastLayerLogSize)
    /\ lib.queries.log_domain_size = LibLastLayerLogSize
    /\ Len(lib.final_folded_evals) = Len(lib.queries.positions)
\* Every evaluation is the value of the last layer polynomial at the domain
\* point of its query.
LibLastLayerEvalsMatch ==
    LET domain == LineDomain_new(Coset_new(0, LibLastLayerLogSize))
    IN \A j \in 1..Len(lib.queries.positions) :
          lib.final_folded_evals[j] =
              PolyValue(lib.self.last_layer_poly[1].coeffs,
                        LastLayerPoint(domain, lib.queries.positions[j]), 1)

\* C13: given queries on the last layer domain and one folded evaluation for
\* each, decommit_last_layer returns Ok if and only if every evaluation is
\* the value of last_layer_poly (coefficients from low to high degree) at
\* domain.at(bit_reverse_index(q_j, log_size)); otherwise it returns
\* FriLastLayerEvaluationsInvalid.
C13_LastLayerCheck ==
    LibLastLayerCallWellFormed =>
        /\ lib.returned.result = "Ok" <=> LibLastLayerEvalsMatch
        /\ ~LibLastLayerEvalsMatch =>
               lib.returned.result = "FriLastLayerEvaluationsInvalid"

\* C13 witness: decommit_last_layer has returned Ok for two queries on a
\* domain of four points and a polynomial of two coefficients that is not
\* constant.
C13_Witness ==
    /\ LibLastLayerCallWellFormed
    /\ LibLastLayerLogSize = 2
    /\ Len(lib.queries.positions) = 2
    /\ Len(lib.self.last_layer_poly[1].coeffs) = 2
    /\ lib.self.last_layer_poly[1].coeffs[2] # QM31_zero
    /\ lib.final_folded_evals[1] # lib.final_folded_evals[2]
    /\ lib.returned.result = "Ok"

\* C14: two channels that start with the same digest and counters and
\* receive the same sequence of mix_u64, mix_felts, mix_root,
\* draw_random_bytes and draw_felt calls return the same value from every
\* draw and are in the same state (digest and counters) after every call.
C14_ChannelDeterminism ==
    lib.op = "channel" =>
        /\ lib.returned.a = lib.returned.b
        /\ ChannelState(lib.a) = ChannelState(lib.b)

\* Largest number of blocks looked at for the first accepted one.
MaxDrawBlocks == 32

RECURSIVE DrawnBlock(_, _)
\* The channel after k blocks were drawn from it.
DrawnBlock(channel, k) ==
    IF k = 0 THEN channel ELSE draw_random_bytes(DrawnBlock(channel, k - 1))
\* Every word of the digest is below 2P.
BlockAccepted(channel) ==
    \A i \in 1..FELTS_PER_HASH : channel.digest[i] < 2 * P
\* The number of blocks drawn up to the first accepted one.
FirstAccepted(channel) ==
    CHOOSE k \in 1..MaxDrawBlocks :
        /\ BlockAccepted(DrawnBlock(channel, k))
        /\ \A j \in 1..(k - 1) : ~BlockAccepted(DrawnBlock(channel, j))
LibDrawFeltReturned == lib.op = "channel" /\ lib.call[1] = "draw_felt"
LibDrawRandomBytesReturned ==
    lib.op = "channel" /\ lib.call[1] = "draw_random_bytes"

\* C15: draw_felt returns four canonical limbs that are, mod P, the first
\* four words of the first block drawn in which all eight words are below
\* 2P; the blocks before it are discarded; each block drawn, accepted or
\* not, advances n_received by one and replaces the digest, and the other
\* counters are left alone.
C15_DrawFeltRejectionSampling ==
    /\ LibDrawFeltReturned =>
          LET k == FirstAccepted(lib.before)
              block == DrawnBlock(lib.before, k)
          IN /\ Len(lib.returned.a) = SECURE_EXTENSION_DEGREE
             /\ \A i \in 1..SECURE_EXTENSION_DEGREE :
                   /\ lib.returned.a[i] \in 0..(P - 1)
                   /\ lib.returned.a[i] = block.digest[i] % P
             /\ lib.a.digest = block.digest
             /\ lib.a.channel_time =
                    [lib.before.channel_time EXCEPT !.n_received = @ + k]
    /\ LibDrawRandomBytesReturned =>
          /\ lib.a.channel_time =
                 [lib.before.channel_time EXCEPT !.n_received = @ + 1]
          /\ lib.a.digest =
                 Blake2sHasher_hash(lib.before.digest
                                        \o <<lib.a.channel_time.n_received>>)
          /\ lib.returned.a = lib.a.digest

\* C15 witness: draw_felt has returned after discarding at least one block,
\* on a channel that had drawn before, and a word of the accepted block is
\* reduced (it is P or more).
C15_Witness ==
    /\ LibDrawFeltReturned
    /\ FirstAccepted(lib.before) >= 2
    /\ lib.before.channel_time.n_received > 0
    /\ \E i \in 1..SECURE_EXTENSION_DEGREE : lib.a.digest[i] >= P

LibInverseReturned == lib.op = "inverse"

\* C16: for a non-zero x of QM31, x * x.inverse() is one, with the product
\* and the inverse as the code computes them.
C16_InverseIsInverse ==
    (LibInverseReturned /\ lib.x # QM31_zero) =>
        /\ QM31_mul(lib.x, lib.returned) = QM31_one
        /\ QM31_mul(lib.returned, lib.x) = QM31_one

\* C16 witness: the inverse of an element with all four limbs non-zero has
\* been computed, and it is not the element itself.
C16_Witness ==
    /\ LibInverseReturned
    /\ \A i \in 1..SECURE_EXTENSION_DEGREE : lib.x[i] # 0
    /\ lib.returned # lib.x

LibBatchInverseReturned == lib.op = "batch_inverse"

\* C17: for a column of non-zero elements, batch_inverse returns a vector
\* of the length of the column whose i-th entry is the inverse of the i-th
\* element.
C17_BatchInverse ==
    LibBatchInverseReturned =>
        /\ Len(lib.returned) = Len(lib.column)
        /\ \A i \in 1..Len(lib.column) :
              lib.returned[i] = QM31_inverse(lib.column[i])

LibPointAddNegReturned == lib.op = "point_add_neg"

\* C18: for a point p of the circle, p + (-p), computed with the Add and
\* the Neg of CirclePoint, is CirclePoint::zero().
C18_PointPlusNegIsZero ==
    LibPointAddNegReturned => lib.returned = CirclePoint_zero

LibBitReverseReturned == lib.op = "bit_reverse_index"

\* C19: for log_size in [0, usize::BITS) and i in [0, 2^log_size),
\* bit_reverse_index applied twice gives i back, what it returns is in
\* [0, 2^log_size), and for log_size = 0 it returns i.
C19_BitReverseInvolution ==
    LibBitReverseReturned =>
        /\ lib.again = lib.i
        /\ lib.returned \in 0..(Pow2(lib.log_size) - 1)
        /\ lib.log_size = 0 => lib.returned = lib.i

\* C19 witness: an index of the widest size below usize::BITS whose bit
\* reversal is another index has been reversed.
C19_Witness ==
    /\ LibBitReverseReturned
    /\ lib.log_size = UsizeBits - 1
    /\ lib.returned # lib.i
    /\ lib.i >= Pow2(lib.log_size - 1)

LibFoldReturned == lib.op = "fold"
LibSampleReturned ==
    lib.op = "sample_query_positions" /\ lib.returned.result = "Ok"
\* The positions are strictly increasing and lie in [0, 2^log_size).
StrictlyIncreasingIn(positions, log_size) ==
    /\ \A i \in 1..Len(positions) : positions[i] \in 0..(Pow2(log_size) - 1)
    /\ \A i \in 1..(Len(positions) - 1) : positions[i] < positions[i + 1]
\* The set { q >> n : q in positions }.
ShiftedSet(positions, n) ==
    {positions[i] \div Pow2(n) : i \in 1..Len(positions)}
\* positions lists exactly the elements of S, each of them once.
ListsOnce(positions, S) ==
    /\ {positions[i] : i \in 1..Len(positions)} = S
    /\ Len(positions) = Cardinality(S)

\* C20: for queries with strictly increasing positions of the domain and
\* n_folds <= log_domain_size, fold returns log_domain_size - n_folds and
\* positions that are strictly increasing, without duplicates, in
\* [0, 2^(log_domain_size - n_folds)) and that are the set { q >> n_folds };
\* the positions sample_query_positions returns for a requested column log
\* size have this form, for the queries it has drawn.
C20_FoldedPositions ==
    /\ LibFoldReturned =>
          /\ lib.returned.log_domain_size =
                 lib.queries.log_domain_size - lib.n_folds
          /\ StrictlyIncreasingIn(lib.returned.positions,
                                  lib.queries.log_domain_size - lib.n_folds)
          /\ ListsOnce(lib.returned.positions,
                       ShiftedSet(lib.queries.positions, lib.n_folds))
    /\ LibSampleReturned =>
          LET queries == lib.returned.verifier.queries[1]
          IN /\ DOMAIN lib.returned.positions = lib.column_log_sizes
             /\ StrictlyIncreasingIn(queries.positions, queries.log_domain_size)
             /\ \A log_size \in lib.column_log_sizes :
                   /\ log_size <= queries.log_domain_size
                   /\ StrictlyIncreasingIn(lib.returned.positions[log_size],
                                           log_size)
                   /\ ListsOnce(lib.returned.positions[log_size],
                                ShiftedSet(queries.positions,
                                           queries.log_domain_size - log_size))

\* C20 witness: a fold by at least one bit has merged two of the positions
\* and has kept at least two.
C20_Witness ==
    /\ LibFoldReturned
    /\ lib.n_folds >= 1
    /\ Len(lib.returned.positions) >= 2
    /\ Len(lib.returned.positions) < Len(lib.queries.positions)

LibVerifyReturned == lib.op = "verify"
\* The last block of sampled_values of the proof handed to verify.
LibCompositionMask ==
    lib.proof.sampled_values[Len(lib.proof.sampled_values)]
\* sampled_values is not empty and its last block is four columns of one
\* value each.
LibOodsShapeRight ==
    /\ lib.proof.sampled_values # <<>>
    /\ Len(LibCompositionMask) = 4
    /\ \A i \in 1..4 : Len(LibCompositionMask[i]) = 1
\* a + b*i + c*u + d*iu for the limbs of four values.
PartialEvalsSum(a, b, c, d) ==
    QM31_add(QM31_add(a, <<M31_neg(b[2]), b[1], M31_neg(b[4]), b[3]>>),
             QM31_add(QM31_mul(<<0, 0, 1, 0>>, c),
                      QM31_mul(<<0, 0, 0, 1>>, d)))

\* C21: verify returns InvalidStructure, without comparing the composition
\* values and without calling verify_values, when sampled_values is empty
\* or its last block is not four columns of one value each; when the shape
\* is right the value is extracted, whatever the four values are, and it is
\* the recombination of the four.
C21_CompositionOodsShape ==
    LibVerifyReturned =>
        /\ ~LibOodsShapeRight =>
              /\ lib.returned.result = "InvalidStructure"
              /\ lib.returned.msg = "Unexpected sampled_values structure"
              /\ lib.returned.oods = <<>>
              /\ ~lib.returned.invoked
        /\ LibOodsShapeRight =>
              /\ lib.returned.msg # "Unexpected sampled_values structure"
              /\ Len(lib.returned.oods) = 2
              /\ lib.returned.oods[1] =
                     PartialEvalsSum(LibCompositionMask[1][1],
                                     LibCompositionMask[2][1],
                                     LibCompositionMask[3][1],
                                     LibCompositionMask[4][1])
              /\ lib.returned.result = "OodsNotMatching"
                     <=> lib.returned.oods[1] # lib.returned.oods[2]
              /\ lib.returned.invoked
                     <=> lib.returned.oods[1] = lib.returned.oods[2]

\* C21 witness: verify has returned InvalidStructure for a proof whose last
\* block of sampled values has a fifth column after four columns of one
\* value each.
C21_Witness ==
    /\ LibVerifyReturned
    /\ Len(lib.proof.sampled_values) = 2
    /\ Len(LibCompositionMask) = 5
    /\ \A i \in 1..5 : Len(LibCompositionMask[i]) = 1
    /\ lib.returned.result = "InvalidStructure"

LibVerifyValuesCommitReturned == lib.op = "verify_values_commit"
\* The distinct column log sizes over all committed trees.
LibDistinctColumnLogSizes ==
    UNION {Range(lib.self.committed_trees[t].column_log_sizes) :
              t \in 1..Len(lib.self.committed_trees)}

\* C22: the bounds verify_values hands to FriVerifier::commit are one bound
\* for each distinct column log size over all committed trees, in strictly
\* descending order, each the log size minus log_blowup_factor.
C22_FriBoundsPerLogSize ==
    LibVerifyValuesCommitReturned =>
        LET bounds == lib.fri_verifier_bounds
            blowup == lib.self.config.fri_config.log_blowup_factor
        IN /\ Len(bounds) = Cardinality(LibDistinctColumnLogSizes)
           /\ \A i \in 1..(Len(bounds) - 1) : bounds[i] > bounds[i + 1]
           /\ {bounds[i] + blowup : i \in 1..Len(bounds)}
                  = LibDistinctColumnLogSizes

LibFriAnswersReturned == lib.op = "fri_answers"
\* The column log sizes over all committed trees, tree after tree.
LibFlatColumnLogSizes ==
    Flatten([t \in 1..Len(lib.self.committed_trees) |->
                lib.self.committed_trees[t].column_log_sizes])

\* C23: the evaluations verify_values builds for FriVerifier::decommit are
\* one for each (log size, sampled query position) pair, so that with a
\* single column log size there are as many as sampled query positions,
\* whatever the number of committed columns; they are built without a
\* panic for every number of trees and columns.
C23_OneAnswerPerLogSizeAndQuery ==
    LibFriAnswersReturned =>
        /\ lib.returned.result = "Running"
        /\ Len(lib.returned.answers) =
               Cardinality({<<log_size, q>> \in
                               Range(LibFlatColumnLogSizes) \X (1..Pow2(MaxAnswerLogSize)) :
                               q <= Len(lib.positions[log_size])})

LibCosetDoubleReturned == lib.op = "Coset::double"

\* C24: for a coset c of log_size >= 1, c.double() has log_size one less,
\* step_size = subgroup_gen(log_size) and initial = initial_index.to_point()
\* for its own fields, and its point at j is the double of the point of c at
\* j, for every j below 2^(c.log_size - 1); the coset of the doubled line
\* domain is the same coset.
C24_CosetDouble ==
    LibCosetDoubleReturned =>
        /\ lib.returned.log_size = lib.coset.log_size - 1
        /\ lib.returned.step_size = subgroup_gen(lib.returned.log_size)
        /\ lib.returned.initial = to_point(lib.returned.initial_index)
        /\ \A j \in 0..(Pow2(lib.coset.log_size - 1) - 1) :
              Coset_at(lib.returned, j) = CirclePoint_double(Coset_at(lib.coset, j))
        /\ lib.line.coset = lib.returned
        /\ lib.line.log_size = lib.returned.log_size

LibFoldLineReturned == lib.op = "fold_line" /\ lib.result = "Ok"
\* The point of the source domain at the stored initial index of bundle k.
LibBundlePoint(k) ==
    LineDomain_at(lib.source_domain, lib.self.subset_domain_initial_indexes[k])
\* f0 + alpha * f1 with f0 = f(x) + f(-x) and f1 = (f(x) - f(-x)) * x^-1.
FoldedPair(f_x, f_neg_x, x, alpha) ==
    QM31_add(QM31_add(f_x, f_neg_x),
             QM31_mul(alpha,
                      QM31_mul(QM31_sub(f_x, f_neg_x),
                               <<M31_inverse(x), 0, 0, 0>>)))

\* C25: in SparseEvaluation::fold_line the k-th pair is folded into
\* f0 + alpha * f1 with the point of the source domain at the stored domain
\* initial index of its bundle, and two bundles with different initial
\* indexes are folded with different points.
C25_FoldPointOfBundle ==
    LibFoldLineReturned =>
        /\ \A k \in 1..Len(lib.returned) :
              /\ lib.x[k] = LibBundlePoint(k)
              /\ LibBundlePoint(k) # 0 =>
                    lib.returned[k] =
                        FoldedPair(lib.self.subset_evals[k][1],
                                   lib.self.subset_evals[k][2],
                                   LibBundlePoint(k), lib.fold_alpha)
        /\ \A k, l \in 1..Len(lib.returned) :
              lib.self.subset_domain_initial_indexes[k]
                      # lib.self.subset_domain_initial_indexes[l]
                  => lib.x[k] # lib.x[l]

LibAccumulateReturned == lib.op = "accumulate_row_quotients"
\* The denominator of batch n at the domain point of the row.
LibDenominator(n) ==
    LET point == lib.sample_batches[n].point
    IN CM31_sub(CM31_mul(CM31_sub(QM31_0(point.x), <<lib.domain_point.x, 0>>),
                         QM31_1(point.y)),
                CM31_mul(CM31_sub(QM31_0(point.y), <<lib.domain_point.y, 0>>),
                         QM31_1(point.x)))
RECURSIVE LibNumerator(_, _)
\* The sum over the first k columns of batch n of
\* value_at_row * c - (a * domain.y + b).
LibNumerator(n, k) ==
    IF k = 0 THEN QM31_zero
    ELSE LET column == lib.sample_batches[n].columns_and_values[k].column
             coeffs == lib.quotient_constants.line_coeffs[n][k]
             y == <<lib.domain_point.y, 0, 0, 0>>
             value == <<lib.queried_values_at_row[column + 1], 0, 0, 0>>
         IN QM31_add(LibNumerator(n, k - 1),
                     QM31_sub(QM31_mul(value, coeffs[3]),
                              QM31_add(QM31_mul(coeffs[1], y), coeffs[2])))
RECURSIVE LibRowAccumulator(_)
\* acc after the first n batches:
\* acc * batch_random_coeff + numerator * denominator^-1.
LibRowAccumulator(n) ==
    IF n = 0 THEN QM31_zero
    ELSE LET inverse == CM31_inverse(LibDenominator(n))
         IN QM31_add(
                QM31_mul(LibRowAccumulator(n - 1),
                         lib.quotient_constants.batch_random_coeffs[n]),
                QM31_mul(LibNumerator(
                             n, Len(lib.sample_batches[n].columns_and_values)),
                         <<inverse[1], inverse[2], 0, 0>>))

\* C26: for a non-empty list of sample batches with non-zero denominators,
\* accumulate_row_quotients returns the accumulator that starts from zero
\* and takes, for each batch in order,
\* acc * batch_random_coeff + numerator * denominator^-1.
C26_RowQuotientAccumulation ==
    (/\ LibAccumulateReturned
     /\ \A n \in 1..Len(lib.sample_batches) : LibDenominator(n) # <<0, 0>>)
        => /\ lib.result = "Ok"
           /\ lib.returned = LibRowAccumulator(Len(lib.sample_batches))

(***************************************************************************)
(* The sparse reconstruction of one FRI layer, checked under SpecLib.      *)
(***************************************************************************)
LibRebuildReturned == lib.op = "compute_decommitment_positions_and_rebuild_evals"

\* The starts of the aligned blocks of 2^fold_step positions that hold a
\* query, in increasing order, and the positions of those blocks.
LibBlockStarts ==
    SortedSeq({(q \div Pow2(lib.fold_step)) * Pow2(lib.fold_step) :
                  q \in Range(lib.queries.positions)})
LibBlockUnion ==
    {p \in 0..(Pow2(lib.queries.log_domain_size) - 1) :
        \E q \in Range(lib.queries.positions) :
            p \div Pow2(lib.fold_step) = q \div Pow2(lib.fold_step)}

\* The evaluation the reconstruction owes at a position of a block: the
\* query evaluation of the position's rank among the queries, or the witness
\* evaluation of its rank among the positions of the blocks not queried.
LibOwedEval(p) ==
    IF p \in Range(lib.queries.positions)
      THEN lib.query_evals[
               Cardinality({q \in Range(lib.queries.positions) : q <= p})]
      ELSE lib.witness_evals[
               Cardinality({w \in LibBlockUnion \ Range(lib.queries.positions) :
                               w <= p})]

LibRebuildRight ==
    LET positions == lib.returned.decommitment_positions
        subset_evals == lib.returned.sparse_evaluation.subset_evals
    IN /\ lib.returned.result = "Ok"
       /\ \A i \in 1..(Len(positions) - 1) : positions[i] < positions[i + 1]
       /\ Range(positions) = LibBlockUnion
       /\ Len(subset_evals) = Len(LibBlockStarts)
       /\ \A g \in 1..Len(subset_evals) :
             /\ Len(subset_evals[g]) = Pow2(lib.fold_step)
             /\ \A j \in 1..Pow2(lib.fold_step) :
                   subset_evals[g][j] = LibOwedEval(LibBlockStarts[g] + j - 1)
       /\ Range(Flatten(subset_evals))
              \cap {LibQueryEval(k) : k \in 1..(MaxRebuildQueries + 1)}
            = {LibQueryEval(k) : k \in 1..Len(lib.queries.positions)}

LibWitnessSufficient ==
    Len(lib.witness_evals)
        >= Cardinality(LibBlockUnion \ Range(lib.queries.positions))

\* C27 as stated: for strictly increasing queries, at least one query
\* evaluation per query and at least one witness evaluation per position of
\* the blocks that is not queried, the reconstruction returns the positions
\* of the union of the aligned blocks in increasing order and one group of
\* 2^fold_step evaluations per block, query evaluations at the queried
\* positions and witness evaluations at the others, both in order, and uses
\* exactly one query evaluation per query.
C27_SparseReconstruction ==
    (/\ LibRebuildReturned
     /\ Len(lib.query_evals) >= Len(lib.queries.positions)
     /\ LibWitnessSufficient)
        => LibRebuildRight

\* C27 amended: the same when there is exactly one query evaluation per
\* query or no query at all; with a query and a query evaluation left over
\* the call returns InvalidStructure ("Extra query evaluations provided").
C27_SparseReconstructionExact ==
    /\ (/\ LibRebuildReturned
        /\ LibWitnessSufficient
        /\ \/ Len(lib.query_evals) = Len(lib.queries.positions)
           \/ /\ lib.queries.positions = <<>>
              /\ Len(lib.query_evals) >= 0)
           => LibRebuildRight
    /\ (/\ LibRebuildReturned
        /\ LibWitnessSufficient
        /\ lib.queries.positions # <<>>
        /\ Len(lib.query_evals) > Len(lib.queries.positions))
           => /\ lib.returned.result = "InvalidStructure"
              /\ lib.returned.msg = "Extra query evaluations provided"

\* Two queries in one block of four and a third in another block, with one
\* witness evaluation more than needed: two groups are rebuilt.
C27_Witness ==
    /\ LibRebuildReturned
    /\ lib.fold_step = 2
    /\ Len(lib.queries.positions) = 3
    /\ Len(lib.query_evals) = 3
    /\ Len(LibBlockStarts) = 2
    /\ Len(lib.witness_evals) = 6
    /\ lib.returned.result = "Ok"
    /\ Len(lib.returned.sparse_evaluation.subset_evals) = 2

(***************************************************************************)
(* The effect of CommitmentSchemeVerifier::commit, checked under SpecLib.  *)
(***************************************************************************)
LibCommitReturned == lib.op = "commit"

\* What the k-th call of the sequence did to the verifier and the channel,
\* except for the log sizes of the new tree.
LibCommitStepRight(k) ==
    LET before == lib.returned[k]
        after == lib.returned[k + 1]
        call == lib.calls[k]
        trees == after.self.committed_trees
    IN /\ Len(trees) = k
       /\ SubSeq(trees, 1, k - 1) = before.self.committed_trees
       /\ trees[k].commitment = call.commitment
       /\ Len(trees[k].column_log_sizes) = Len(call.log_degree_bounds)
       /\ after.self.config = before.self.config
       /\ after.channel.ops
              = Append(before.channel.ops, <<"mix_root", call.commitment>>)

\* C28 as stated: after any sequence of commit calls committed_trees holds
\* one MerkleVerifier per call in call order; each call appends one tree
\* with the given root and column_log_sizes[i] = log_degree_bounds[i] +
\* log_blowup_factor, leaves the earlier trees and the config unchanged and
\* performs exactly one mix_root and no draw on the channel.
C28_CommitEffect ==
    LibCommitReturned =>
        /\ Len(lib.returned) = Len(lib.calls) + 1
        /\ \A k \in 1..Len(lib.calls) :
              /\ LibCommitStepRight(k)
              /\ \A i \in 1..Len(lib.calls[k].log_degree_bounds) :
                    lib.returned[k + 1].self.committed_trees[k].column_log_sizes[i]
                        = lib.calls[k].log_degree_bounds[i]
                          + lib.returned[1].self.config.fri_config.log_blowup_factor

\* C28 amended: the same, with column_log_sizes[i] the saturating sum
\* min(log_degree_bounds[i] + log_blowup_factor, u32::MAX); the trees of all
\* calls are still held, in call order, after the last call.
C28_CommitEffectSaturating ==
    LibCommitReturned =>
        /\ Len(lib.returned) = Len(lib.calls) + 1
        /\ \A k \in 1..Len(lib.calls) :
              /\ LibCommitStepRight(k)
              /\ \A i \in 1..Len(lib.calls[k].log_degree_bounds) :
                    lib.returned[k + 1].self.committed_trees[k].column_log_sizes[i]
                        = Min({U32Max,
                               lib.calls[k].log_degree_bounds[i]
                               + lib.returned[1].self.config.fri_config
                                     .log_blowup_factor})
              /\ lib.returned[Len(lib.returned)].self.committed_trees[k].commitment
                     = lib.calls[k].commitment

\* Three calls with three different roots on a verifier with blowup 1, the
\* last one with a bound at the top of the u32 range.
C28_Witness ==
    /\ LibCommitReturned
    /\ Len(lib.calls) = 3
    /\ lib.returned[1].self.config.fri_config.log_blowup_factor = 1
    /\ lib.calls[1].commitment = <<12>>
    /\ lib.calls[2].commitment = <<11>>
    /\ lib.calls[3].commitment = <<13>>
    /\ Len(lib.returned[4].self.committed_trees) = 3

(***************************************************************************)
(* The alignment of queries and layer domains in decommit_inner_layers,    *)
(* checked under SpecLib.                                                  *)
(***************************************************************************)
LibInnerLayersReturned == lib.op = "decommit_inner_layers"

\* The queries were sampled on the commitment domain of the column, as
\* verify_values samples them.
LibSampledOnCommitmentDomain ==
    lib.layer_queries.log_domain_size
        = lib.self.column_commitment_domains[1].log_size

\* C29: at every iteration of decommit_inner_layers that rebuilds a layer,
\* layer_queries.log_domain_size = current_layer_domain.log_size() and every
\* position is below 2^current_layer_domain.log_size(); and when the number
\* of inner layers is the line degree bound of the first layer minus
\* log_last_layer_degree_bound, the queries returned for decommit_last_layer
\* have log_domain_size = log_last_layer_degree_bound + log_blowup_factor.
C29_InnerLayerAlignment ==
    (LibInnerLayersReturned /\ LibSampledOnCommitmentDomain) =>
        /\ \A i \in 1..Len(lib.returned.iterations) :
              LET iteration == lib.returned.iterations[i]
              IN /\ iteration.layer_queries.log_domain_size
                        = iteration.current_layer_domain.log_size
                 /\ \A k \in 1..Len(iteration.layer_queries.positions) :
                       iteration.layer_queries.positions[k]
                           < Pow2(iteration.current_layer_domain.log_size)
        /\ (/\ lib.returned.result = "Ok"
            /\ lib.self.column_bounds[1] >= CIRCLE_TO_LINE_FOLD_STEP
            /\ Len(lib.self.inner_layers_proof)
                   = lib.self.column_bounds[1] - CIRCLE_TO_LINE_FOLD_STEP
                     - lib.self.config.log_last_layer_degree_bound)
               => lib.returned.queries.log_domain_size
                      = lib.self.config.log_last_layer_degree_bound
                        + lib.self.config.log_blowup_factor

(***************************************************************************)
(* Termination of MerkleVerifier::verify, checked under SpecMerkleLive.    *)
(***************************************************************************)
MerkleRunning == mk.run.pc \in {"node", "final"}
MerkleReturned == mk.run.pc = "done" /\ mk.run.result # "None"

\* C30: every call of MerkleVerifier::verify returns, Ok or an error: a call
\* that is running leads to a call that has returned, also when the node
\* loop of a level finds computed nodes of the level above to combine.
C30_MerkleVerifyTerminates == MerkleRunning ~> MerkleReturned

\* C30 witness: a call has returned from the node loop of a level below the
\* leaves, with nodes computed by the level above still to combine and
\* after at least two iterations of the loop.
C30_Witness ==
    /\ MerkleReturned
    /\ mk.run.layer_log_size < mk.run.max_log_size
    /\ mk.run.prev_layer_queries # <<>>
    /\ mk.run.n_iterations >= 2

====
